---------------------------- MODULE Spec2Model ----------------------------
(***************************************************************************)
(* secure-time-share: the Record Store (secureMessages), the Key Vault     *)
(* (secureMessageKeys) and the viewer's Lifecycle Coordinator              *)
(* (useMessageDecryption), as a state machine over the browser's           *)
(* localStorage.  A string is a sequence of one-character strings.         *)
(***************************************************************************)
EXTENDS Integers, Sequences, FiniteSets, TLC

(***************************************************************************)
(* Bounds of the model.                                                    *)
(***************************************************************************)
MaxTime == 1
MaxStore == 2
MaxCalls == 3

(***************************************************************************)
(* Program constants.                                                      *)
(***************************************************************************)
\* number | null: the null of expiresAt and maxViews
Null == -1
\* "minimum 10 chars to be significant"
MinMatch == 10
\* "first 20 chars": the shortened id
ShortLen == 20
\* AES-256: 32 raw key bytes
KeyBytes == 32

Min(a, b) == IF a < b THEN a ELSE b

Max(a, b) == IF a > b THEN a ELSE b

(***************************************************************************)
(* JavaScript string operations.                                           *)
(***************************************************************************)
ToLowerChar(ch) ==
  CASE ch = "A" -> "a" [] ch = "B" -> "b" [] ch = "C" -> "c"
    [] ch = "D" -> "d" [] ch = "E" -> "e" [] ch = "F" -> "f"
    [] OTHER -> ch

ToUpperChar(ch) ==
  CASE ch = "a" -> "A" [] ch = "b" -> "B" [] ch = "c" -> "C"
    [] ch = "d" -> "D" [] ch = "e" -> "E" [] ch = "f" -> "F"
    [] OTHER -> ch

ToLowerCase(s) == [i \in 1..Len(s) |-> ToLowerChar(s[i])]

ToUpperCase(s) == [i \in 1..Len(s) |-> ToUpperChar(s[i])]

\* s.substring(a, b): the characters at 0-based positions a .. b-1, clamped
Substring(s, a, b) == SubSeq(s, Min(a, Len(s)) + 1, Min(b, Len(s)))

\* s.includes(t)
Includes(s, t) ==
  \E k \in 0..(Len(s) - Len(t)) : SubSeq(s, k + 1, k + Len(t)) = t

\* s.startsWith(t)
StartsWith(s, t) == Len(t) <= Len(s) /\ SubSeq(s, 1, Len(t)) = t

RECURSIVE TrimStart(_)
TrimStart(s) ==
  IF s # <<>> /\ Head(s) = " " THEN TrimStart(Tail(s)) ELSE s

RECURSIVE TrimEnd(_)
TrimEnd(s) ==
  IF s # <<>> /\ s[Len(s)] = " " THEN TrimEnd(SubSeq(s, 1, Len(s) - 1)) ELSE s

\* s.trim()
Trim(s) == TrimEnd(TrimStart(s))

(***************************************************************************)
(* The identifiers of the model: tokens of 24 characters.  IdA and IdB     *)
(* share their first 20 characters, IdC shares no run of 10 characters     *)
(* with either; IdAU is IdA after a change of case, IdA20 is IdA cut to    *)
(* its first 20 characters.                                                *)
(***************************************************************************)
P20 ==
  << "a", "b", "c", "d", "e", "f", "0", "1", "2", "3",
     "4", "5", "6", "7", "8", "9", "a", "b", "c", "d" >>

IdA == P20 \o << "e", "e", "e", "e" >>

IdB == P20 \o << "f", "f", "f", "f" >>

IdC ==
  << "9", "7", "5", "3", "1", "8", "6", "4", "2", "0", "9", "7",
     "5", "3", "1", "8", "6", "4", "2", "0", "9", "7", "5", "3" >>

IdAU == ToUpperCase(IdA)

IdA20 == Substring(IdA, 0, ShortLen)

StoredIds == { IdA, IdB, IdC }

QueryIds == { IdA, IdAU }

AllIds == StoredIds \cup QueryIds \cup { IdA20 }

\* a token that begins with the first 10 characters of IdA and holds the
\* first 20 characters of IdA further on, without beginning with them
IdD == SubSeq(P20, 1, MinMatch) \o << "f" >> \o P20

\* a token whose last 10 characters occur nowhere else in it
IdE ==
  << "0", "0", "0", "0", "1", "1", "1", "1", "2", "2", "2", "2",
     "3", "3", "3", "3", "4", "4", "4", "4", "5", "5", "5", "5" >>

\* a query that shares with IdE its last 10 characters and nothing longer
IdTail ==
  << "b", "b", "b", "b", "b", "b", "b" >>
    \o SubSeq(IdE, Len(IdE) - MinMatch + 1, Len(IdE))
    \o << "b", "b", "b", "b", "b", "b", "b" >>


(***************************************************************************)
(* Values.                                                                 *)
(***************************************************************************)
\* getMessage / incrementMessageViews returning undefined
Undefined == [undefined |-> TRUE]

\* the signed-out user (getUserId() === null, isSignedIn false)
NoUser == "nobody"

Users == { "u1" }

Contexts == { 1, 2 }

(***************************************************************************)
(* Encryption Engine, symbolically: a raw key is a number, its text form   *)
(* is what base64UrlDecode makes of it (whether it decodes, and to how     *)
(* many bytes of which key), and a sealed text opens under the root key    *)
(* it was sealed with and under no other.                                  *)
(***************************************************************************)
RootKeys == { 1, 2 }

\* exportKey: base64url of the 32 raw bytes
\* pad: the text has white space around it
ExportKey(k) == [b64 |-> TRUE, bytes |-> KeyBytes, raw |-> k, pad |-> FALSE]

\* the empty string
EmptyText == [b64 |-> TRUE, bytes |-> 0, raw |-> 0, pad |-> FALSE]

\* a key text cut to half its length
ShortKeyText(k) == [b64 |-> TRUE, bytes |-> 16, raw |-> k, pad |-> FALSE]

\* a key text followed by a blank
PaddedKey(k) == [ExportKey(k) EXCEPT !.pad = TRUE]

\* key.trim() kept as it is
NoTrim(text) == text

\* key.trim()
TrimKey(text) == [text EXCEPT !.pad = FALSE]

ImportError == 0

\* importKey: the raw key, or ImportError when the text does not decode to
\* 32 bytes
ImportKey(text) ==
  IF ~text.b64 \/ text.bytes # KeyBytes THEN ImportError ELSE text.raw

(***************************************************************************)
(* Texts are sequences of UTF-16 code units, byte strings of the text      *)
(* encoder sequences of bytes.  A sealed byte string is kept by its        *)
(* parts: its length, the value of its first 16 bytes (the salt), of the   *)
(* next 12 (the iv) and of the rest (the AES-GCM output); a sealed text    *)
(* is kept by what base64UrlDecode makes of it.                            *)
(***************************************************************************)
IsHighSurrogate(u) == u >= 55296 /\ u <= 56319

IsLowSurrogate(u) == u >= 56320 /\ u <= 57343

\* the scalar values of a string as the encoder reads it: a surrogate pair
\* is one value, a surrogate without its partner is U+FFFD
RECURSIVE ScalarValues(_)
ScalarValues(s) ==
  IF s = << >> THEN << >>
  ELSE IF Len(s) >= 2 /\ IsHighSurrogate(s[1]) /\ IsLowSurrogate(s[2])
       THEN << 65536 + (s[1] - 55296) * 1024 + (s[2] - 56320) >>
              \o ScalarValues(SubSeq(s, 3, Len(s)))
       ELSE IF IsHighSurrogate(s[1]) \/ IsLowSurrogate(s[1])
            THEN << 65533 >> \o ScalarValues(Tail(s))
            ELSE << s[1] >> \o ScalarValues(Tail(s))

\* UTF-8 of one scalar value
Utf8(cp) ==
  IF cp < 128 THEN << cp >>
  ELSE IF cp < 2048 THEN << 192 + (cp \div 64), 128 + (cp % 64) >>
  ELSE IF cp < 65536
       THEN << 224 + (cp \div 4096), 128 + ((cp \div 64) % 64), 128 + (cp % 64) >>
       ELSE << 240 + (cp \div 262144), 128 + ((cp \div 4096) % 64),
               128 + ((cp \div 64) % 64), 128 + (cp % 64) >>

RECURSIVE Utf8All(_)
Utf8All(cps) ==
  IF cps = << >> THEN << >> ELSE Utf8(Head(cps)) \o Utf8All(Tail(cps))

\* "secret"
Secret == << 115, 101, 99, 114, 101, 116 >>

Plaintexts == { Secret }

\* the texts sealed: "", "a", "secret", a text that begins with U+FEFF, a
\* text with a high surrogate that has no partner, and a surrogate pair
EnginePlaintexts ==
  { << >>, << 97 >>, Secret, << 65279, 97 >>, << 55357, 97 >>, << 55357, 56832 >> }

\* the encoder's output for each text of the model, computed once
Encoded == [s \in EnginePlaintexts |-> Utf8All(ScalarValues(s))]

\* new TextEncoder().encode(message)
TextEncode(s) == Encoded[s]

\* the scalar values of a UTF-8 byte string; a byte that begins no
\* sequence is U+FFFD
RECURSIVE Utf8Decode(_)
Utf8Decode(b) ==
  IF b = << >> THEN << >>
  ELSE IF b[1] < 128 THEN << b[1] >> \o Utf8Decode(Tail(b))
  ELSE IF b[1] >= 240 /\ Len(b) >= 4
       THEN << (b[1] - 240) * 262144 + (b[2] - 128) * 4096
                 + (b[3] - 128) * 64 + (b[4] - 128) >>
              \o Utf8Decode(SubSeq(b, 5, Len(b)))
  ELSE IF b[1] >= 224 /\ b[1] < 240 /\ Len(b) >= 3
       THEN << (b[1] - 224) * 4096 + (b[2] - 128) * 64 + (b[3] - 128) >>
              \o Utf8Decode(SubSeq(b, 4, Len(b)))
  ELSE IF b[1] >= 192 /\ b[1] < 224 /\ Len(b) >= 2
       THEN << (b[1] - 192) * 64 + (b[2] - 128) >>
              \o Utf8Decode(SubSeq(b, 3, Len(b)))
  ELSE << 65533 >> \o Utf8Decode(Tail(b))

\* the UTF-16 code units of a sequence of scalar values
RECURSIVE CodeUnits(_)
CodeUnits(cps) ==
  IF cps = << >> THEN << >>
  ELSE (IF Head(cps) >= 65536
        THEN << 55296 + ((Head(cps) - 65536) \div 1024),
                56320 + ((Head(cps) - 65536) % 1024) >>
        ELSE << Head(cps) >>) \o CodeUnits(Tail(cps))

\* the decoder's default (ignoreBOM false): a leading U+FEFF is dropped
StripBOM(cps) == IF cps # << >> /\ cps[1] = 65279 THEN Tail(cps) ELSE cps

\* the decoder's output for each byte string the encoder gives, computed
\* once
Decoded ==
  [b \in { Encoded[s] : s \in EnginePlaintexts } |->
     CodeUnits(StripBOM(Utf8Decode(b)))]

\* new TextDecoder().decode(decrypted)
TextDecode(b) == Decoded[b]

\* what decryptMessage throws, and no text
DecryptError == << Null, Null >>

\* generateSalt: 16 random bytes
SaltBytes == 16

\* generateIV: 12 random bytes
IvBytes == 12

\* the authentication tag AES-GCM appends (tagLength is left at 128 bits)
TagBytes == 16

\* combined.byteLength < 28
MinCombined == 28

\* the values a draw of generateSalt / generateIV may have
Salts == { 1, 2 }

Ivs == { 1, 2 }

\* deriveKey: PBKDF2 (SHA-256, 100000 iterations) of the raw key and the salt
DeriveKey(k, salt) == [root |-> k, salt |-> salt]

\* crypto.subtle.encrypt, AES-GCM: the ciphertext of the data and its tag,
\* as long as the data plus the tag
AesGcmEncrypt(messageKey, iv, data) ==
  [len |-> Len(data) + TagBytes, key |-> messageKey, iv |-> iv, data |-> data,
   intact |-> TRUE]

\* what crypto.subtle.decrypt throws (OperationError)
OperationError == << Null >>

\* crypto.subtle.decrypt, AES-GCM: the data, when the bytes are what
\* encrypt gave under this key and iv, unchanged and whole
AesGcmDecrypt(messageKey, iv, ct) ==
  IF /\ ct.len >= TagBytes
     /\ ct.intact
     /\ ct.key = messageKey
     /\ ct.iv = iv
     /\ ct.len = Len(ct.data) + TagBytes
  THEN ct.data
  ELSE OperationError

\* lines 462-465: salt, iv and ciphertext in one buffer
Combined(salt, iv, ct) ==
  [len |-> SaltBytes + IvBytes + ct.len, salt |-> salt, iv |-> iv, ct |-> ct]

\* base64UrlEncode: the text over A-Z a-z 0-9 - _ without padding
\* b64: every character of the text is of an alphabet atob accepts after
\*      the replacement of - and _
\* urlSafe: the text has - and _ where the standard alphabet has + and /
\* slack: the bits of the last character that carry no bit of the bytes are 0
\* pad: the text has white space around it
Base64UrlEncode(bytes) ==
  [b64 |-> TRUE, urlSafe |-> TRUE, slack |-> TRUE, pad |-> FALSE, bytes |-> bytes]

\* the empty string: a record handed to saveMessage without its
\* encryptedContent
NoContent == Base64UrlEncode([len |-> 0, salt |-> 0, iv |-> 0,
                              ct |-> [len |-> 0, key |-> DeriveKey(0, 0), iv |-> 0,
                                      data |-> << >>, intact |-> FALSE]])

\* what base64UrlDecode throws ("Invalid base64 format")
DecodeError == [len |-> Null]

\* base64UrlDecode: - and _ replaced, padded with =, atob; atob takes
\* either alphabet after the replacement and drops the bits of the last
\* character that fill no byte
Base64UrlDecode(text) == IF text.b64 THEN text.bytes ELSE DecodeError

\* encryptMessage, for the salt and the iv it draws
EncryptMessage(pt, k, salt, iv) ==
  Base64UrlEncode(Combined(salt, iv,
                           AesGcmEncrypt(DeriveKey(k, salt), iv, TextEncode(pt))))

\* decryptMessage, step by step: what it ends with (error "none" and the
\* text, or the kind of its failure), and whether it came to deriveKey and
\* to crypto.subtle.decrypt
DecryptOutcome(encrypted, k) ==
  LET combined == Base64UrlDecode(TrimKey(encrypted))
  IN  IF combined = DecodeError
      THEN [error |-> "InvalidBase64", derived |-> FALSE, opened |-> FALSE,
            text |-> << >>]
      ELSE IF combined.len < MinCombined
      THEN [error |-> "InvalidCiphertext", derived |-> FALSE, opened |-> FALSE,
            text |-> << >>]
      ELSE LET messageKey == DeriveKey(k, combined.salt)
               decrypted == AesGcmDecrypt(messageKey, combined.iv, combined.ct)
           IN  IF decrypted = OperationError
               THEN [error |-> "DecryptionFailed", derived |-> TRUE,
                     opened |-> TRUE, text |-> << >>]
               ELSE [error |-> "none", derived |-> TRUE, opened |-> TRUE,
                     text |-> TextDecode(decrypted)]

\* decryptMessage: the text, or DecryptError for whatever it throws
DecryptMessage(encrypted, k) ==
  IF DecryptOutcome(encrypted, k).error = "none"
  THEN DecryptOutcome(encrypted, k).text
  ELSE DecryptError

(***************************************************************************)
(* Record Store: pure parts.                                               *)
(***************************************************************************)
\* isMessageExpired with the expiry instant itself counted as passed
IsMessageExpiredInclusive(m, t) ==
  IF m.maxViews # Null /\ m.currentViews >= m.maxViews THEN TRUE
  ELSE IF m.expiresAt # Null /\ t >= m.expiresAt THEN TRUE
  ELSE FALSE

\* isMessageExpired with the view limit compared strictly
IsMessageExpiredViewsStrict(m, t) ==
  IF m.maxViews # Null /\ m.currentViews > m.maxViews THEN TRUE
  ELSE IF m.expiresAt # Null /\ t > m.expiresAt THEN TRUE
  ELSE FALSE

\* isMessageExpired(message) with Date.now() = t
IsMessageExpired(m, t) ==
  IF m.maxViews # Null /\ m.currentViews >= m.maxViews THEN TRUE
  ELSE IF m.expiresAt # Null /\ t > m.expiresAt THEN TRUE
  ELSE FALSE

\* the lengths the nested loops of getMessage find: for (i = 0; i <
\* id.length - 10; i++) for (len = 10; len <= id.length - i; len++) with
\* cleanId.includes(id.substring(i, i + len))
LoopMatches(mid, cleanId) ==
  { l \in MinMatch..Len(mid) :
      \E i \in 0..(Len(mid) - MinMatch - 1) :
        /\ l <= Len(mid) - i
        /\ Includes(cleanId, Substring(mid, i, i + l)) }

SetMax(S) == CHOOSE x \in S : \A y \in S : y <= x

SetMin(S) == CHOOSE x \in S : \A y \in S : x <= y

\* longestMatch of getMessage's map callback
LongestMatch(mid, cleanId) ==
  IF Includes(mid, cleanId) THEN Len(cleanId)
  ELSE IF Includes(cleanId, mid) THEN Len(mid)
  ELSE IF LoopMatches(mid, cleanId) = {} THEN 0
  ELSE SetMax(LoopMatches(mid, cleanId))

\* beginningMatch of getMessage's map callback
BeginningMatch(mid, cleanId) ==
  \/ StartsWith(mid, Substring(cleanId, 0, MinMatch))
  \/ StartsWith(cleanId, Substring(mid, 0, MinMatch))

Confidence(mid, cleanId) ==
  LongestMatch(mid, cleanId) + (IF BeginningMatch(mid, cleanId) THEN 10 ELSE 0)

\* the scores of every pair of identifiers of the model, computed once
MatchTable ==
  { [ mid |-> p[1], cleanId |-> p[2],
      longestMatch |-> LongestMatch(p[1], p[2]),
      confidence |-> Confidence(p[1], p[2]) ] : p \in AllIds \X AllIds }

Score(mid, cleanId) ==
  IF mid \in AllIds /\ cleanId \in AllIds
  THEN CHOOSE e \in MatchTable : e.mid = mid /\ e.cleanId = cleanId
  ELSE [ mid |-> mid, cleanId |-> cleanId,
         longestMatch |-> LongestMatch(mid, cleanId),
         confidence |-> Confidence(mid, cleanId) ]

\* truncatedMatches of getMessage
TruncatedMatch(mid, cleanId) ==
  \/ StartsWith(mid, Substring(cleanId, 0, ShortLen))
  \/ StartsWith(cleanId, Substring(mid, 0, ShortLen))

\* getMessage(id) over the stored array msgs
GetMessage(msgs, id) ==
  IF id = <<>> THEN Undefined
  ELSE
    LET cleanId == Trim(id)
        idx == 1..Len(msgs)
        exact == { i \in idx : msgs[i].id = cleanId }
        ci == { i \in idx : ToLowerCase(msgs[i].id) = ToLowerCase(cleanId) }
        partial == { i \in idx : Score(msgs[i].id, cleanId).longestMatch >= MinMatch }
        \* sort by confidence, descending and stable: the first of the best
        best == { i \in partial : \A j \in partial :
                    Score(msgs[j].id, cleanId).confidence
                      <= Score(msgs[i].id, cleanId).confidence }
        trunc == { i \in idx : TruncatedMatch(msgs[i].id, cleanId) }
        \* sort by createdAt, descending and stable: the first of the newest
        newest == { i \in trunc : \A j \in trunc : msgs[j].createdAt <= msgs[i].createdAt }
    IN  IF exact # {} THEN msgs[SetMin(exact)]
        ELSE IF ci # {} THEN msgs[SetMin(ci)]
        ELSE IF partial # {} THEN msgs[SetMin(best)]
        ELSE IF trunc # {} THEN msgs[SetMin(newest)]
        ELSE Undefined

(***************************************************************************)
(* Key Vault: pure parts.  The vault is the JSON object secureMessageKeys, *)
(* a sequence of entries in insertion order.                               *)
(***************************************************************************)
KeyIndex(ks, id) == { i \in 1..Len(ks) : ks[i].id = id }

\* keys[id], the empty text standing for undefined
KeyAt(ks, id) ==
  IF KeyIndex(ks, id) = {} THEN EmptyText ELSE ks[SetMin(KeyIndex(ks, id))].key

\* keys[id] = key
SetKey(ks, id, key) ==
  IF KeyIndex(ks, id) = {} THEN Append(ks, [id |-> id, key |-> key])
  ELSE [ i \in 1..Len(ks) |-> IF ks[i].id = id THEN [id |-> id, key |-> key] ELSE ks[i] ]

\* delete keys[id] for every id of the set
DeleteKeys(ks, ids) == SelectSeq(ks, LAMBDA e : e.id \notin ids)

\* storeEncryptionKey(messageId, encodedKey)
StoreEncryptionKey(ks, messageId, encodedKey) ==
  IF messageId = <<>> \/ encodedKey = EmptyText THEN ks
  ELSE
    LET cleanId == Trim(messageId)
        shortId == Substring(cleanId, 0, ShortLen)
        trimmedKey == TrimKey(encodedKey)
        first == SetKey(ks, cleanId, trimmedKey)
    IN  IF shortId # cleanId THEN SetKey(first, shortId, trimmedKey) ELSE first

\* the filter of getEncryptionKey's partial matches
KeyPartialMatch(kid, cleanId) ==
  \/ Includes(kid, cleanId)
  \/ Includes(cleanId, kid)
  \/ LoopMatches(kid, cleanId) # {}

KeyMatchTable ==
  { p \in AllIds \X AllIds : KeyPartialMatch(p[1], p[2]) }

KeyPartial(kid, cleanId) ==
  IF kid \in AllIds /\ cleanId \in AllIds
  THEN <<kid, cleanId>> \in KeyMatchTable
  ELSE KeyPartialMatch(kid, cleanId)

\* getEncryptionKey(messageId): the key text, or the empty text for null
GetEncryptionKey(ks, msgs, messageId) ==
  IF messageId = <<>> THEN EmptyText
  ELSE
    LET cleanId == Trim(messageId)
        idx == 1..Len(ks)
        ci == { i \in idx : ToLowerCase(ks[i].id) = ToLowerCase(cleanId) }
        shortId == Substring(cleanId, 0, ShortLen)
        partial == { i \in idx : KeyPartial(ks[i].id, cleanId) }
        existing == { i \in partial : \E j \in 1..Len(msgs) :
                        Includes(msgs[j].id, ks[i].id) \/ Includes(ks[i].id, msgs[j].id) }
    IN  IF KeyAt(ks, cleanId) # EmptyText THEN KeyAt(ks, cleanId)
        ELSE IF ci # {} THEN ks[SetMin(ci)].key
        ELSE IF KeyAt(ks, shortId) # EmptyText THEN KeyAt(ks, shortId)
        ELSE IF partial = {} THEN EmptyText
        ELSE IF existing # {} THEN ks[SetMin(existing)].key
        ELSE ks[SetMin(partial)].key

\* the entries cleanupOrphanedKeys finds no message for
OrphanedKeys(ks, msgs) ==
  { i \in 1..Len(ks) :
      ~\E j \in 1..Len(msgs) :
         \/ msgs[j].id = ks[i].id
         \/ Includes(msgs[j].id, ks[i].id)
         \/ Includes(ks[i].id, msgs[j].id) }

\* the object cleanupOrphanedKeys leaves in secureMessageKeys
CleanupKeys(ks, msgs) ==
  DeleteKeys(ks, { ks[i].id : i \in OrphanedKeys(ks, msgs) })

\* removeEncryptionKey(messageId)
RemoveEncryptionKey(ks, messageId) ==
  IF messageId = <<>> THEN ks
  ELSE IF KeyAt(ks, messageId) # EmptyText THEN DeleteKeys(ks, { messageId })
  ELSE DeleteKeys(ks, { ks[i].id : i \in { j \in 1..Len(ks) :
                          Includes(ks[j].id, messageId) \/ Includes(messageId, ks[j].id) } })

(***************************************************************************)
(* Record Store: the operations on the stored array.                       *)
(***************************************************************************)
\* updateMessage(updatedMessage): messages.map(...)
UpdateMessage(msgs, updated) ==
  [ i \in 1..Len(msgs) |-> IF msgs[i].id = updated.id THEN updated ELSE msgs[i] ]

\* the array incrementMessageViews(id) leaves in secureMessages
IncrementStore(msgs, id) ==
  LET message == GetMessage(msgs, id)
  IN  IF message = Undefined THEN msgs
      ELSE IF message.maxViews # Null /\ message.currentViews >= message.maxViews
      THEN msgs
      ELSE UpdateMessage(msgs, [message EXCEPT !.currentViews = @ + 1])

\* what incrementMessageViews(id) returns
IncrementResult(msgs, id) ==
  LET message == GetMessage(msgs, id)
  IN  IF message = Undefined THEN Undefined
      ELSE IF message.maxViews # Null /\ message.currentViews >= message.maxViews
      THEN message
      ELSE [message EXCEPT !.currentViews = @ + 1]

\* what updateMessage(updatedMessage) of incrementMessageViews(id) makes of
\* the per-user list
IncrementUserList(list, msgs, id) ==
  LET message == GetMessage(msgs, id)
  IN  IF message = Undefined THEN list
      ELSE IF message.maxViews # Null /\ message.currentViews >= message.maxViews
      THEN list
      ELSE UpdateMessage(list, [message EXCEPT !.currentViews = @ + 1])

\* messages.filter(message => message.id !== id) of deleteMessage
DeleteFilter(msgs, id) == SelectSeq(msgs, LAMBDA m : m.id # id)

\* the sweep's filter looking at the expiry time only
ValidMessagesTimeOnly(msgs, t) ==
  SelectSeq(msgs, LAMBDA m : ~(m.expiresAt # Null /\ t > m.expiresAt))

\* the sweep's filter with its predicate inverted
ValidMessagesInverted(msgs, t) == SelectSeq(msgs, LAMBDA m : IsMessageExpired(m, t))

\* messages.filter(message => !isMessageExpired(message)) of
\* cleanupExpiredMessages
ValidMessages(msgs, t) == SelectSeq(msgs, LAMBDA m : ~IsMessageExpired(m, t))

\* "if (!message || !message.id || !message.encryptedContent)" with only
\* the id looked at
InvalidRecordIdOnly(message) == message.id = << >>

\* "if (!message || !message.id || !message.encryptedContent)"
InvalidRecord(message) ==
  message.id = << >> \/ message.encryptedContent = NoContent

\* the array saveMessage(message) leaves with every message pushed
SaveStoreAppend(msgs, message) == Append(msgs, message)

\* the array saveMessage(message) leaves in secureMessages
SaveStore(msgs, message) ==
  IF \E i \in 1..Len(msgs) : msgs[i].id = message.id
  THEN [ i \in 1..Len(msgs) |-> IF msgs[i].id = message.id THEN message ELSE msgs[i] ]
  ELSE Append(msgs, message)

(***************************************************************************)
(* State.                                                                  *)
(***************************************************************************)
VARIABLES
  now,            \* Date.now()
  store,          \* localStorage secureMessages: the array of records
  keys,           \* localStorage secureMessageKeys: entries in insertion order
  pc,             \* per context: where its Coordinator run stands
  urlId,          \* per context: the :id of the route
  hash,           \* per context: window.location.hash without its '#'
  signedIn,       \* per context: isSignedIn of useUser()
  message,        \* per context: the record getMessage resolved
  keyFragment,    \* per context: the key text the run settled on
  keySource,      \* per context: which source gave keyFragment
  decrypted,      \* per context: decryptedMessage
  updatedMessage, \* per context: what incrementMessageViews returned
  pendingKey,     \* per context: storeKeyForFutureAccess still to run
  ret,            \* the last Record Store call and what it returned
  ops,            \* Record Store calls made from outside a run
  runs,           \* Coordinator runs started
  spent,          \* history: the ids of the records seen consumed so far
  spentAtStart,   \* history, per context: spent when its run started
  clerkUser,      \* localStorage clerk-user: the id getUserId() returns
  userList,       \* localStorage userMessages_<userId>: that user's records
  storageFails,   \* localStorage.setItem throws (the quota is exceeded)
  lastCacheCleanup, \* localStorage lastCacheCleanup, or Null
  gcPc,           \* per context: where performPeriodicCacheCleanup stands
  gcTime,         \* per context: its currentTime
  gcs,            \* performPeriodicCacheCleanup calls made
  gcLog,          \* history: the cleanups that ran, in their order
  error,          \* per context: the error the page holds (useState)
  incRead,        \* per context: the record incrementMessageViews has read
  snap,           \* per context: the array a Record Store call has read
  dones           \* history, per record id: the runs that ended Done with it

storeVars == << store, keys >>

runVars ==
  << pc, urlId, hash, signedIn, message, keyFragment, keySource, decrypted,
     updatedMessage, pendingKey >>

userVars == << clerkUser, userList >>

gcVars == << lastCacheCleanup, gcPc, gcTime, gcs, gcLog >>

sessionVars == << error, incRead, snap, dones >>

vars == << now, store, keys, pc, urlId, hash, signedIn, message, keyFragment,
           keySource, decrypted, updatedMessage, pendingKey, ret, ops, runs,
           spent, spentAtStart, clerkUser, userList, storageFails,
           lastCacheCleanup, gcPc, gcTime, gcs, gcLog, error, incRead, snap,
           dones >>

NoPlain == << Null >>

\* incrementMessageViews is not between its read and its write
NoRead == [noRead |-> TRUE]

\* no Record Store call is between its read and its write
NoSnap == [noSnap |-> TRUE]

NotCalled == [notCalled |-> TRUE]

NoPending == << >>

NoRet == [op |-> "none", id |-> << >>, val |-> 0]

Terminal == { "Done", "NotFound", "Expired", "MissingKey", "DecryptFailed", "InvalidId" }

FailTerminal == Terminal \ { "Done" }

\* who opens a view page: the key text in the link's fragment and whether
\* the visitor is signed in
Viewers ==
  { [frag |-> ExportKey(1), si |-> FALSE],
    [frag |-> ExportKey(2), si |-> FALSE],
    [frag |-> ExportKey(2), si |-> TRUE],
    [frag |-> ShortKeyText(1), si |-> FALSE],
    [frag |-> EmptyText, si |-> FALSE],
    [frag |-> EmptyText, si |-> TRUE] }

Init ==
  /\ now = 0
  /\ store = << >>
  /\ keys = << >>
  /\ pc = [c \in Contexts |-> "Unmounted"]
  /\ urlId = [c \in Contexts |-> << >>]
  /\ hash = [c \in Contexts |-> EmptyText]
  /\ signedIn = [c \in Contexts |-> FALSE]
  /\ message = [c \in Contexts |-> Undefined]
  /\ keyFragment = [c \in Contexts |-> EmptyText]
  /\ keySource = [c \in Contexts |-> "none"]
  /\ decrypted = [c \in Contexts |-> NoPlain]
  /\ updatedMessage = [c \in Contexts |-> NotCalled]
  /\ pendingKey = [c \in Contexts |-> NoPending]
  /\ ret = NoRet
  /\ ops = 0
  /\ runs = 0
  /\ spent = {}
  /\ spentAtStart = [c \in Contexts |-> {}]
  /\ clerkUser = NoUser
  /\ userList = << >>
  /\ storageFails = FALSE
  /\ lastCacheCleanup = Null
  /\ gcPc = [c \in Contexts |-> "Idle"]
  /\ gcTime = [c \in Contexts |-> 0]
  /\ gcs = 0
  /\ gcLog = << >>
  /\ error = [c \in Contexts |-> "none"]
  /\ incRead = [c \in Contexts |-> NoRead]
  /\ snap = [c \in Contexts |-> NoSnap]
  /\ dones = [id \in StoredIds \cup { IdD, IdE } |-> 0]

\* the ids of the stored records that isMessageExpired holds of at time t
ConsumedIds(msgs, t) ==
  { msgs[i].id : i \in { j \in 1..Len(msgs) : IsMessageExpired(msgs[j], t) } }

\* the history variable spent follows every step
Record == spent' = spent \cup ConsumedIds(store', now')

\* the calls made so far: the budget of the model
Calls == ops + runs + gcs

\* localStorage.setItem(key, new): it throws while the quota is exceeded and
\* the item keeps its old value
Written(new, old) == IF storageFails THEN old ELSE new

\* the same for userMessages_<userId>, written only "if (userId)"
WrittenForUser(new, old) ==
  IF storageFails \/ clerkUser = NoUser THEN old ELSE new

\* what incrementMessageViews(id) returns: "return message" when
\* updateMessage returned false
IncrementReturned(msgs, id) ==
  IF storageFails THEN GetMessage(msgs, id) ELSE IncrementResult(msgs, id)

(***************************************************************************)
(* Lifecycle Coordinator: useMessageDecryption's decryptAndViewMessage.    *)
(* One action per stretch of code between two awaits.                      *)
(***************************************************************************)
\* the user id useUser() gives a signed-in context
UserOf(c) == IF signedIn[c] THEN "u1" ELSE NoUser

\* the fragment left where it is
ReplaceStateKeepsHash(fragment) == fragment

\* lines 223-227: window.history.replaceState(null, "", pathname + search)
\* leaves a locator with no fragment
ReplaceState(fragment) == EmptyText

\* the key sources with the Key Vault asked before the fragment is looked at
ResolveKeyVaultFirst(c, msg) ==
  LET storedKey == GetEncryptionKey(keys, store, msg.id)
  IN  IF signedIn[c] /\ storedKey # EmptyText
      THEN [key |-> storedKey, source |-> "vault"]
      ELSE IF hash[c] # EmptyText THEN [key |-> hash[c], source |-> "fragment"]
      ELSE [key |-> EmptyText, source |-> "none"]

\* "Try multiple ways to get the decryption key": the key text and its source
ResolveKey(c, msg) ==
  IF hash[c] # EmptyText THEN [key |-> hash[c], source |-> "fragment"]
  ELSE IF signedIn[c]
  THEN LET storedKey == GetEncryptionKey(keys, store, msg.id)
       IN  IF storedKey # EmptyText THEN [key |-> storedKey, source |-> "vault"]
           ELSE IF UserOf(c) \in msg.sharedWithUsers \/ msg.ownerId = UserOf(c)
           THEN LET storedSharedKey == GetEncryptionKey(keys, store, msg.id)
                IN  IF storedSharedKey # EmptyText
                    THEN [key |-> storedSharedKey, source |-> "shared"]
                    ELSE [key |-> EmptyText, source |-> "none"]
           ELSE [key |-> EmptyText, source |-> "none"]
  ELSE [key |-> EmptyText, source |-> "none"]

\* the page /view/:id is opened, or reloaded by the user (handleReloadPage):
\* the effect starts a run
Navigate(c, id, frag, si) ==
  /\ pc[c] \in Terminal \cup { "Unmounted" }
  /\ gcPc[c] = "Idle"
  \* the contexts are interchangeable: they are opened in their order
  /\ \A d \in Contexts : d < c => pc[d] # "Unmounted"
  /\ pendingKey[c] = NoPending
  /\ Calls < MaxCalls
  /\ runs' = runs + 1
  /\ pc' = [pc EXCEPT ![c] = "Idle"]
  /\ urlId' = [urlId EXCEPT ![c] = id]
  /\ hash' = [hash EXCEPT ![c] = frag]
  /\ signedIn' = [signedIn EXCEPT ![c] = si]
  /\ message' = [message EXCEPT ![c] = Undefined]
  /\ keyFragment' = [keyFragment EXCEPT ![c] = EmptyText]
  /\ keySource' = [keySource EXCEPT ![c] = "none"]
  /\ decrypted' = [decrypted EXCEPT ![c] = NoPlain]
  /\ updatedMessage' = [updatedMessage EXCEPT ![c] = NotCalled]
  /\ spentAtStart' = [spentAtStart EXCEPT ![c] = spent]
  /\ UNCHANGED << now, store, keys, pendingKey, ret, ops >>
  /\ UNCHANGED << userVars, storageFails, gcVars >>
  \* a page that loads starts with useState(null)
  /\ error' = [error EXCEPT ![c] = "none"]
  /\ UNCHANGED << incRead, snap, dones >>
  /\ Record

\* lines 252-253: the effect runs again when isSignedIn or the user of
\* useUser() changes.  The page is not reloaded: decryptedMessage and error
\* keep what the runs before left in them.  (Taken here once the run before
\* has ended.)
AuthChange(c) ==
  /\ pc[c] \in Terminal
  /\ gcPc[c] = "Idle"
  /\ pendingKey[c] = NoPending
  /\ Calls < MaxCalls
  /\ runs' = runs + 1
  /\ signedIn' = [signedIn EXCEPT ![c] = ~@]
  /\ pc' = [pc EXCEPT ![c] = "Idle"]
  /\ message' = [message EXCEPT ![c] = Undefined]
  /\ keyFragment' = [keyFragment EXCEPT ![c] = EmptyText]
  /\ keySource' = [keySource EXCEPT ![c] = "none"]
  /\ updatedMessage' = [updatedMessage EXCEPT ![c] = NotCalled]
  /\ spentAtStart' = [spentAtStart EXCEPT ![c] = spent]
  /\ UNCHANGED << now, store, keys, urlId, hash, decrypted, pendingKey, ret, ops >>
  /\ UNCHANGED << userVars, storageFails, gcVars >>
  /\ UNCHANGED sessionVars
  /\ Record

\* handleReloadPage of ViewMessage.tsx (20-33), the onRetry of the error
\* page.  With a fragment in the locator it assigns location.href the same
\* path with the trimmed fragment, which moves to the fragment and loads
\* nothing; with none it calls location.reload().
Retry(c) ==
  /\ pc[c] \in Terminal
  /\ error[c] # "none"
  /\ gcPc[c] = "Idle"
  /\ pendingKey[c] = NoPending
  /\ Calls < MaxCalls
  /\ runs' = runs + 1
  /\ IF hash[c] # EmptyText
     THEN /\ hash' = [hash EXCEPT ![c] = TrimKey(@)]
          /\ UNCHANGED << pc, message, keyFragment, keySource, decrypted,
                          updatedMessage, spentAtStart, error >>
     ELSE /\ pc' = [pc EXCEPT ![c] = "Idle"]
          /\ message' = [message EXCEPT ![c] = Undefined]
          /\ keyFragment' = [keyFragment EXCEPT ![c] = EmptyText]
          /\ keySource' = [keySource EXCEPT ![c] = "none"]
          /\ decrypted' = [decrypted EXCEPT ![c] = NoPlain]
          /\ updatedMessage' = [updatedMessage EXCEPT ![c] = NotCalled]
          /\ spentAtStart' = [spentAtStart EXCEPT ![c] = spent]
          /\ error' = [error EXCEPT ![c] = "none"]
          /\ hash' = hash
  /\ UNCHANGED << now, store, keys, urlId, signedIn, pendingKey, ret, ops >>
  /\ UNCHANGED << userVars, storageFails, gcVars, incRead, snap, dones >>
  /\ Record

\* lines 42-170: resolve the record, check its policy, resolve the key
Resolve(c) ==
  /\ pc[c] = "Idle"
  /\ gcPc[c] = "Idle"
  /\ LET cleanId == Trim(urlId[c])
         msg == GetMessage(store, cleanId)
         found == [key |-> EmptyText, source |-> "none"]
     IN  IF urlId[c] = << >>
         THEN /\ pc' = [pc EXCEPT ![c] = "InvalidId"]
              /\ UNCHANGED << store, keys, userList, message, keyFragment, keySource >>
         ELSE IF msg = Undefined
         THEN /\ pc' = [pc EXCEPT ![c] = "NotFound"]
              /\ UNCHANGED << store, keys, userList, message, keyFragment, keySource >>
         ELSE IF IsMessageExpired(msg, now)
         THEN \* deleteMessage(cleanId)
              /\ store' = Written(DeleteFilter(store, cleanId), store)
              /\ userList' = WrittenForUser(DeleteFilter(userList, cleanId), userList)
              /\ keys' = Written(RemoveEncryptionKey(keys, cleanId), keys)
              /\ message' = [message EXCEPT ![c] = msg]
              /\ pc' = [pc EXCEPT ![c] = "Expired"]
              /\ UNCHANGED << keyFragment, keySource >>
         ELSE /\ message' = [message EXCEPT ![c] = msg]
              \* line 168: keyFragment = keyFragment.trim()
              /\ keyFragment' =
                   [keyFragment EXCEPT ![c] = TrimKey(ResolveKey(c, msg).key)]
              /\ keySource' = [keySource EXCEPT ![c] = ResolveKey(c, msg).source]
              /\ pc' = [pc EXCEPT ![c] =
                          IF ResolveKey(c, msg).key = EmptyText
                          THEN "MissingKey" ELSE "ImportingKey"]
              /\ UNCHANGED << store, keys, userList >>
  /\ UNCHANGED << now, urlId, hash, signedIn, decrypted, updatedMessage,
                  pendingKey, ret, ops, runs, spentAtStart >>
  /\ UNCHANGED << clerkUser, storageFails, gcVars >>
  \* setError(...) on the way to a failure; nothing clears it
  /\ error' = [error EXCEPT ![c] = IF pc'[c] \in FailTerminal THEN pc'[c] ELSE @]
  /\ UNCHANGED << incRead, snap, dones >>
  /\ Record

\* line 175: await importKey(keyFragment)
ImportKeyStep(c) ==
  /\ pc[c] = "ImportingKey"
  /\ gcPc[c] = "Idle"
  /\ pc' = [pc EXCEPT ![c] =
              IF ImportKey(keyFragment[c]) = ImportError
              THEN "DecryptFailed" ELSE "Decrypting"]
  /\ UNCHANGED << now, store, keys, urlId, hash, signedIn, message, keyFragment,
                  keySource, decrypted, updatedMessage, pendingKey, ret, ops, runs, spentAtStart >>
  /\ UNCHANGED << userVars, storageFails, gcVars >>
  \* setError(...) on the way to a failure; nothing clears it
  /\ error' = [error EXCEPT ![c] = IF pc'[c] \in FailTerminal THEN pc'[c] ELSE @]
  /\ UNCHANGED << incRead, snap, dones >>
  /\ Record

\* the decrypt step with the view counted before the outcome of
\* decryptMessage is looked at
DecryptStepCountsFirst(c) ==
  /\ pc[c] = "Decrypting"
  /\ gcPc[c] = "Idle"
  /\ LET plain == DecryptMessage(message[c].encryptedContent, ImportKey(keyFragment[c]))
     IN  /\ store' = Written(IncrementStore(store, message[c].id), store)
         /\ userList' =
              WrittenForUser(IncrementUserList(userList, store, message[c].id), userList)
         /\ updatedMessage' =
              [updatedMessage EXCEPT ![c] = IncrementReturned(store, message[c].id)]
         /\ IF plain = DecryptError \/ plain = << >>
            THEN /\ pc' = [pc EXCEPT ![c] = "DecryptFailed"]
                 /\ UNCHANGED << hash, decrypted, pendingKey >>
            ELSE /\ decrypted' = [decrypted EXCEPT ![c] = plain]
                 /\ pendingKey' =
                      [pendingKey EXCEPT ![c] = << message[c].id, keyFragment[c] >>]
                 /\ hash' = [hash EXCEPT ![c] = ReplaceState(@)]
                 /\ pc' = [pc EXCEPT ![c] = "Done"]
  /\ UNCHANGED << now, keys, urlId, signedIn, message, keyFragment, keySource,
                  ret, ops, runs, spentAtStart >>
  /\ UNCHANGED << clerkUser, storageFails, gcVars >>
  \* setError(...) on the way to a failure; nothing clears it
  /\ error' = [error EXCEPT ![c] = IF pc'[c] \in FailTerminal THEN pc'[c] ELSE @]
  \* history: one more run has ended Done with the record it resolved
  /\ dones' = IF pc'[c] = "Done"
              THEN [dones EXCEPT ![message[c].id] = @ + 1]
              ELSE dones
  /\ UNCHANGED << incRead, snap >>
  /\ Record

\* lines 180-227: await decryptMessage(...), then count the view, show the
\* text, queue storeKeyForFutureAccess and clear the fragment
DecryptStep(c) ==
  /\ pc[c] = "Decrypting"
  /\ gcPc[c] = "Idle"
  /\ LET plain == DecryptMessage(message[c].encryptedContent, ImportKey(keyFragment[c]))
     IN  IF plain = DecryptError \/ plain = << >>
         THEN /\ pc' = [pc EXCEPT ![c] = "DecryptFailed"]
              /\ UNCHANGED << store, userList, hash, decrypted, updatedMessage,
                              pendingKey >>
         ELSE /\ store' = Written(IncrementStore(store, message[c].id), store)
              /\ userList' =
                   WrittenForUser(IncrementUserList(userList, store, message[c].id),
                                  userList)
              /\ updatedMessage' =
                   [updatedMessage EXCEPT ![c] = IncrementReturned(store, message[c].id)]
              /\ decrypted' = [decrypted EXCEPT ![c] = plain]
              /\ pendingKey' =
                   [pendingKey EXCEPT ![c] = << message[c].id, keyFragment[c] >>]
              /\ hash' = [hash EXCEPT ![c] = ReplaceState(@)]
              /\ pc' = [pc EXCEPT ![c] = "Done"]
  /\ UNCHANGED << now, keys, urlId, signedIn, message, keyFragment, keySource,
                  ret, ops, runs, spentAtStart >>
  /\ UNCHANGED << clerkUser, storageFails, gcVars >>
  \* setError(...) on the way to a failure; nothing clears it
  /\ error' = [error EXCEPT ![c] = IF pc'[c] \in FailTerminal THEN pc'[c] ELSE @]
  \* history: one more run has ended Done with the record it resolved
  /\ dones' = IF pc'[c] = "Done"
              THEN [dones EXCEPT ![message[c].id] = @ + 1]
              ELSE dones
  /\ UNCHANGED << incRead, snap >>
  /\ Record

\* storeKeyForFutureAccess: import("@/lib/storage").then(...)
StoreKeyForFutureAccess(c) ==
  /\ pendingKey[c] # NoPending
  /\ gcPc[c] = "Idle"
  /\ keys' = Written(StoreEncryptionKey(keys, pendingKey[c][1], pendingKey[c][2]), keys)
  /\ pendingKey' = [pendingKey EXCEPT ![c] = NoPending]
  /\ UNCHANGED << now, store, pc, urlId, hash, signedIn, message, keyFragment,
                  keySource, decrypted, updatedMessage, ret, ops, runs, spentAtStart >>
  /\ UNCHANGED << userVars, storageFails, gcVars >>
  /\ UNCHANGED sessionVars
  /\ Record

(***************************************************************************)
(* Record Store and Key Vault calls made by the other pages.               *)
(***************************************************************************)
\* saveMessage(message) from the page of context c, whose location.hash is
\* hash[c] and whose user is the one getUserId() gives; then
\* storeMessageKey(message.id)
SaveMessage(c, id, exp, maxV, ct) ==
  /\ Calls < MaxCalls
  /\ LET msg == [ id |-> id,
                  encryptedContent |-> ct,
                  expiresAt |-> exp,
                  maxViews |-> maxV,
                  currentViews |-> 0,
                  createdAt |-> now,
                  ownerId |-> IF clerkUser # NoUser THEN clerkUser ELSE UserOf(c),
                  sharedWithUsers |-> {} ]
     IN  IF InvalidRecord(msg)
         THEN /\ ret' = [op |-> "saveMessage", id |-> id, val |-> 0]
              /\ UNCHANGED << store, keys, userList >>
         ELSE /\ Len(SaveStore(store, msg)) <= MaxStore
              /\ store' = Written(SaveStore(store, msg), store)
              /\ userList' = WrittenForUser(SaveStore(userList, msg), userList)
              /\ keys' = IF hash[c] # EmptyText
                         THEN Written(StoreEncryptionKey(keys, id, hash[c]), keys)
                         ELSE keys
              /\ ret' = [op |-> "saveMessage", id |-> id,
                         val |-> IF storageFails THEN 0 ELSE 1]
  /\ ops' = ops + 1
  /\ UNCHANGED << now, runVars, runs, spentAtStart >>
  /\ UNCHANGED << clerkUser, storageFails, gcVars >>
  /\ UNCHANGED sessionVars
  /\ Record

\* MessageForm's handleSubmit after its awaits (lines 183-262), for the
\* token id and the key k it has generated: saveMessage, and when that has
\* succeeded storeEncryptionKey(id, keyString).  generateToken gives 32
\* random bytes: a token no record has or had
HandleSubmit(c, id, exp, maxV, k) ==
  /\ Calls < MaxCalls
  /\ id \notin spent
  /\ \A i \in 1..Len(store) : store[i].id # id
  /\ LET msg == [ id |-> id,
                  encryptedContent |-> EncryptMessage(Secret, k, 1, 1),
                  expiresAt |-> exp,
                  maxViews |-> maxV,
                  currentViews |-> 0,
                  createdAt |-> now,
                  ownerId |-> IF clerkUser # NoUser THEN clerkUser ELSE UserOf(c),
                  sharedWithUsers |-> {} ]
         saved == IF hash[c] # EmptyText
                  THEN StoreEncryptionKey(keys, id, hash[c])
                  ELSE keys
     IN  /\ Len(SaveStore(store, msg)) <= MaxStore
         /\ store' = Written(SaveStore(store, msg), store)
         /\ userList' = WrittenForUser(SaveStore(userList, msg), userList)
         /\ keys' = Written(StoreEncryptionKey(saved, id, ExportKey(k)), keys)
         /\ ret' = [op |-> "handleSubmit", id |-> id,
                    val |-> IF storageFails THEN 0 ELSE 1]
  /\ ops' = ops + 1
  /\ UNCHANGED << now, runVars, runs, spentAtStart >>
  /\ UNCHANGED << clerkUser, storageFails, gcVars >>
  /\ UNCHANGED sessionVars
  /\ Record

\* storeEncryptionKey(id, keyString) of MessageForm's handleSubmit
StoreKey(id, k) ==
  /\ Calls < MaxCalls
  /\ \E i \in 1..Len(store) : store[i].id = id
  /\ keys' = Written(StoreEncryptionKey(keys, id, ExportKey(k)), keys)
  /\ ret' = [op |-> "storeEncryptionKey", id |-> id,
             val |-> IF storageFails THEN 0 ELSE 1]
  /\ ops' = ops + 1
  /\ UNCHANGED << now, store, runVars, runs, spentAtStart >>
  /\ UNCHANGED << userVars, storageFails, gcVars >>
  /\ UNCHANGED sessionVars
  /\ Record

\* incrementMessageViews(id)
IncrementMessageViews(id) ==
  /\ Calls < MaxCalls
  /\ store' = Written(IncrementStore(store, id), store)
  /\ userList' = WrittenForUser(IncrementUserList(userList, store, id), userList)
  /\ ret' = [op |-> "incrementMessageViews", id |-> id,
             val |-> IncrementReturned(store, id)]
  /\ ops' = ops + 1
  /\ UNCHANGED << now, keys, runVars, runs, spentAtStart >>
  /\ UNCHANGED << clerkUser, storageFails, gcVars >>
  /\ UNCHANGED sessionVars
  /\ Record

\* deleteMessage(id)
DeleteMessage(id) ==
  /\ Calls < MaxCalls
  /\ store' = Written(DeleteFilter(store, id), store)
  /\ userList' = WrittenForUser(DeleteFilter(userList, id), userList)
  /\ keys' = Written(RemoveEncryptionKey(keys, id), keys)
  /\ ret' = [op |-> "deleteMessage", id |-> id,
             val |-> IF storageFails THEN 0 ELSE 1]
  /\ ops' = ops + 1
  /\ UNCHANGED << now, runVars, runs, spentAtStart >>
  /\ UNCHANGED << clerkUser, storageFails, gcVars >>
  /\ UNCHANGED sessionVars
  /\ Record

\* cleanupExpiredMessages(): returns deletedCount, or 0 from its catch
CleanupExpiredMessages ==
  /\ Calls < MaxCalls
  /\ store' = Written(ValidMessages(store, now), store)
  /\ userList' = IF Len(ValidMessages(store, now)) < Len(store)
                 THEN WrittenForUser(ValidMessages(userList, now), userList)
                 ELSE userList
  /\ ret' = [op |-> "cleanupExpiredMessages", id |-> << >>,
             val |-> IF storageFails THEN 0
                     ELSE Len(store) - Len(ValidMessages(store, now))]
  /\ ops' = ops + 1
  /\ UNCHANGED << now, keys, runVars, runs, spentAtStart >>
  /\ UNCHANGED << clerkUser, storageFails, gcVars >>
  /\ UNCHANGED sessionVars
  /\ Record

\* storeEncryptionKey(messageId, encodedKey), the Key Vault called directly
PutKey(id, text) ==
  /\ Calls < MaxCalls
  /\ keys' = Written(StoreEncryptionKey(keys, id, text), keys)
  /\ ret' = [op |-> "storeEncryptionKey", id |-> id, arg |-> text,
             val |-> IF storageFails \/ id = << >> \/ text = EmptyText THEN 0 ELSE 1]
  /\ ops' = ops + 1
  /\ UNCHANGED << now, store, runVars, runs, spentAtStart >>
  /\ UNCHANGED << userVars, storageFails, gcVars >>
  /\ UNCHANGED sessionVars
  /\ Record

\* cleanupOrphanedKeys(): returns removedCount, or 0 from its catch
CleanupOrphanedKeys ==
  /\ Calls < MaxCalls
  /\ keys' = Written(CleanupKeys(keys, store), keys)
  /\ ret' = [op |-> "cleanupOrphanedKeys", id |-> << >>,
             val |-> IF storageFails /\ OrphanedKeys(keys, store) # {} THEN 0
                     ELSE Cardinality(OrphanedKeys(keys, store))]
  /\ ops' = ops + 1
  /\ UNCHANGED << now, store, runVars, runs, spentAtStart >>
  /\ UNCHANGED << userVars, storageFails, gcVars >>
  /\ UNCHANGED sessionVars
  /\ Record

\* the incremented record made from the count in the store at the time of
\* the write
UpdatedFromStore(msg) ==
  IF GetMessage(store, msg.id) = Undefined
  THEN [msg EXCEPT !.currentViews = @ + 1]
  ELSE [msg EXCEPT !.currentViews = GetMessage(store, msg.id).currentViews + 1]

\* lines 378-381: { ...message, currentViews: message.currentViews + 1 }
UpdatedFromRead(msg) == [msg EXCEPT !.currentViews = @ + 1]

(***************************************************************************)
(* incrementMessageViews in two contexts.  The call is one synchronous     *)
(* block in its own context; localStorage is shared with the other         *)
(* contexts without a lock, so between its getMessage (IncRead) and the     *)
(* setItem of its updateMessage (IncWrite) another context may act.        *)
(***************************************************************************)
\* lines 370-376: getMessage(id), and the return for no record or for a
\* record at its limit
IncRead(c, id) ==
  /\ incRead[c] = NoRead
  /\ Calls < MaxCalls
  /\ ops' = ops + 1
  /\ LET msg == GetMessage(store, id)
     IN  IF msg = Undefined
         THEN /\ ret' = [op |-> "incrementMessageViews", id |-> id, val |-> Undefined]
              /\ UNCHANGED incRead
         ELSE IF msg.maxViews # Null /\ msg.currentViews >= msg.maxViews
         THEN /\ ret' = [op |-> "incrementMessageViews", id |-> id, val |-> msg]
              /\ UNCHANGED incRead
         ELSE /\ incRead' = [incRead EXCEPT ![c] = msg]
              /\ ret' = ret
  /\ UNCHANGED << now, store, keys, runVars, runs, spentAtStart >>
  /\ UNCHANGED << userVars, storageFails, gcVars, error, snap, dones >>
  /\ Record

\* lines 378-398: updateMessage(updatedMessage) and the return.  ret keeps
\* the count that was read and the count that was in the store at the write.
IncWrite(c) ==
  /\ incRead[c] # NoRead
  /\ LET updated == UpdatedFromRead(incRead[c])
         stored == GetMessage(store, updated.id)
     IN  /\ store' = Written(UpdateMessage(store, updated), store)
         /\ userList' = WrittenForUser(UpdateMessage(userList, updated), userList)
         /\ ret' = [op |-> "incrementMessageViews", id |-> updated.id,
                    val |-> IF storageFails THEN incRead[c] ELSE updated,
                    read |-> incRead[c].currentViews,
                    before |-> IF stored = Undefined THEN Null
                               ELSE stored.currentViews]
  /\ incRead' = [incRead EXCEPT ![c] = NoRead]
  /\ UNCHANGED << now, keys, runVars, ops, runs, spentAtStart >>
  /\ UNCHANGED << clerkUser, storageFails, gcVars, error, snap, dones >>
  /\ Record

(***************************************************************************)
(* The Record Store calls in two contexts.  Each call reads the whole      *)
(* array with getAllMessages() and writes a whole array back with          *)
(* setItem('secureMessages', ...); localStorage is shared with the other   *)
(* contexts without a lock, so another context may act between the two.    *)
(* snap[c] holds what the call of context c has read and is about to       *)
(* write.                                                                  *)
(***************************************************************************)
\* saveMessage lines 62-69: getAllMessages() and the array with the message
\* replaced or pushed
SaveMessageRead(c, id, exp, maxV) ==
  /\ snap[c] = NoSnap
  /\ incRead[c] = NoRead
  /\ Calls < MaxCalls
  /\ LET msg == [ id |-> id,
                  encryptedContent |-> EncryptMessage(Secret, 1, 1, 1),
                  expiresAt |-> exp,
                  maxViews |-> maxV,
                  currentViews |-> 0,
                  createdAt |-> now,
                  ownerId |-> IF clerkUser # NoUser THEN clerkUser ELSE UserOf(c),
                  sharedWithUsers |-> {} ]
     IN  /\ Len(SaveStore(store, msg)) <= MaxStore
         /\ snap' = [snap EXCEPT ![c] = [op |-> "saveMessage", id |-> id,
                                         messages |-> SaveStore(store, msg)]]
  /\ ops' = ops + 1
  /\ UNCHANGED << now, store, keys, runVars, ret, runs, spentAtStart >>
  /\ UNCHANGED << userVars, storageFails, gcVars, error, incRead, dones >>
  /\ Record

\* incrementMessageViews lines 370-381 and updateMessage lines 280-283:
\* getMessage(id), the returns for no record and for a record at its limit,
\* then getAllMessages() and the array with the record replaced
UpdateMessageRead(c, id) ==
  /\ snap[c] = NoSnap
  /\ incRead[c] = NoRead
  /\ Calls < MaxCalls
  /\ LET msg == GetMessage(store, id)
     IN  IF msg = Undefined
         THEN /\ ret' = [op |-> "incrementMessageViews", id |-> id, val |-> Undefined]
              /\ UNCHANGED snap
         ELSE IF msg.maxViews # Null /\ msg.currentViews >= msg.maxViews
         THEN /\ ret' = [op |-> "incrementMessageViews", id |-> id, val |-> msg]
              /\ UNCHANGED snap
         ELSE /\ snap' = [snap EXCEPT ![c] =
                            [op |-> "incrementMessageViews", id |-> id,
                             messages |-> UpdateMessage(store, UpdatedFromRead(msg))]]
              /\ ret' = ret
  /\ ops' = ops + 1
  /\ UNCHANGED << now, store, keys, runVars, runs, spentAtStart >>
  /\ UNCHANGED << userVars, storageFails, gcVars, error, incRead, dones >>
  /\ Record

\* deleteMessage lines 310-311: getAllMessages() and the array without the
\* record
DeleteMessageRead(c, id) ==
  /\ snap[c] = NoSnap
  /\ incRead[c] = NoRead
  /\ Calls < MaxCalls
  /\ snap' = [snap EXCEPT ![c] = [op |-> "deleteMessage", id |-> id,
                                  messages |-> DeleteFilter(store, id)]]
  /\ ops' = ops + 1
  /\ UNCHANGED << now, store, keys, runVars, ret, runs, spentAtStart >>
  /\ UNCHANGED << userVars, storageFails, gcVars, error, incRead, dones >>
  /\ Record

\* cleanupExpiredMessages lines 10-34: getAllMessages(), the return of 0
\* when no record is expired, and the array without the records
\* isMessageExpired tells expired
CleanupExpiredMessagesRead(c) ==
  /\ snap[c] = NoSnap
  /\ incRead[c] = NoRead
  /\ Calls < MaxCalls
  /\ IF Len(ValidMessages(store, now)) = Len(store)
     THEN /\ ret' = [op |-> "cleanupExpiredMessages", id |-> << >>, val |-> 0]
          /\ UNCHANGED snap
     ELSE /\ snap' = [snap EXCEPT ![c] =
                        [op |-> "cleanupExpiredMessages", id |-> << >>,
                         messages |-> ValidMessages(store, now)]]
          /\ ret' = ret
  /\ ops' = ops + 1
  /\ UNCHANGED << now, store, keys, runVars, runs, spentAtStart >>
  /\ UNCHANGED << userVars, storageFails, gcVars, error, incRead, dones >>
  /\ Record

\* localStorage.setItem('secureMessages', JSON.stringify(...)) of the call
\* context c is in, and the rest of the call: the per-user list "if
\* (userId)", removeEncryptionKey(id) of deleteMessage, storeMessageKey(id)
\* of saveMessage
SetItemStep(c) ==
  /\ snap[c] # NoSnap
  /\ store' = Written(snap[c].messages, store)
  /\ userList' =
       IF snap[c].op = "saveMessage"
       THEN WrittenForUser(SaveStore(userList, GetMessage(snap[c].messages, snap[c].id)),
                           userList)
       ELSE IF snap[c].op = "incrementMessageViews"
       THEN WrittenForUser(UpdateMessage(userList,
                                         GetMessage(snap[c].messages, snap[c].id)),
                           userList)
       ELSE IF snap[c].op = "deleteMessage"
       THEN WrittenForUser(DeleteFilter(userList, snap[c].id), userList)
       ELSE WrittenForUser(ValidMessages(userList, now), userList)
  /\ keys' =
       IF snap[c].op = "deleteMessage"
       THEN Written(RemoveEncryptionKey(keys, snap[c].id), keys)
       ELSE IF snap[c].op = "saveMessage" /\ hash[c] # EmptyText
       THEN Written(StoreEncryptionKey(keys, snap[c].id, hash[c]), keys)
       ELSE keys
  /\ ret' = [op |-> snap[c].op, id |-> snap[c].id,
             val |-> IF storageFails THEN 0 ELSE 1]
  /\ snap' = [snap EXCEPT ![c] = NoSnap]
  /\ UNCHANGED << now, runVars, ops, runs, spentAtStart >>
  /\ UNCHANGED << clerkUser, storageFails, gcVars, error, incRead, dones >>
  /\ Record

\* getMessage(id) called from a page
GetMessageCall(id) ==
  /\ Calls < MaxCalls
  /\ ret' = [op |-> "getMessage", id |-> id, val |-> GetMessage(store, id)]
  /\ ops' = ops + 1
  /\ UNCHANGED << now, store, keys, runVars, runs, spentAtStart >>
  /\ UNCHANGED << userVars, storageFails, gcVars >>
  /\ UNCHANGED sessionVars
  /\ Record

\* the names of the localStorage items, in the parts startsWith tells apart
UserMessagesName(u) == << "userMessages_", u >>

\* users who were signed in on this browser before and whose lists are
\* still stored
LegacyUsers == { "u2", "u3" }

\* the orders in which localStorage.key(0), key(1), ... can give the names S
Orders(S) ==
  { f \in [1..Cardinality(S) -> S] :
      \A i, j \in 1..Cardinality(S) : i # j => f[i] # f[j] }

\* localStorage.removeItem(names[i]): the names after it move up by one
RemoveAt(names, i) ==
  [ j \in 1..(Len(names) - 1) |-> IF j < i THEN names[j] ELSE names[j + 1] ]

\* lines 137-143, from index i on: for (let i = 0; i < localStorage.length;
\* i++) remove the item when its name starts with userMessages_; i goes up
\* by one after a removal as well
RECURSIVE ClearLoop(_, _)
ClearLoop(names, i) ==
  IF i > Len(names) THEN names
  ELSE IF StartsWith(names[i], << "userMessages_" >>)
       THEN ClearLoop(RemoveAt(names, i), i + 1)
       ELSE ClearLoop(names, i + 1)

\* the names localStorage holds when the loop of clearMessageCache(false)
\* begins: secureMessages, which has just been set, the marker when there
\* is one, and the lists of the users of legacy; secureMessageKeys and the
\* list of the current user have been removed
NamesAtLoop(legacy) ==
  { << "secureMessages" >> }
    \cup (IF lastCacheCleanup # Null THEN { << "lastCacheCleanup" >> } ELSE {})
    \cup { UserMessagesName(u) : u \in legacy }

\* clearMessageCache(false), with the lists of the users of legacy in the
\* storage and names the order in which localStorage.key enumerates at the
\* beginning of the loop.  When setItem throws, the catch returns 0 after
\* secureMessages has been removed.
ClearMessageCache(legacy, names) ==
  /\ Calls < MaxCalls
  /\ names \in Orders(NamesAtLoop(legacy))
  /\ store' = << >>
  /\ keys' = IF storageFails THEN keys ELSE << >>
  /\ userList' = IF storageFails THEN userList ELSE << >>
  /\ ret' = [op |-> "clearMessageCache", id |-> << >>,
             before |-> names,
             after |-> IF storageFails THEN names ELSE ClearLoop(names, 1),
             val |-> IF storageFails THEN 0
                     ELSE 2 + (IF clerkUser # NoUser THEN 1 ELSE 0)
                            + (Len(names) - Len(ClearLoop(names, 1)))]
  /\ ops' = ops + 1
  /\ UNCHANGED << now, runVars, runs, spentAtStart >>
  /\ UNCHANGED << clerkUser, storageFails, gcVars >>
  /\ UNCHANGED sessionVars
  /\ Record

\* localStorage 'clerk-user' is written by the sign-in of the origin
SetClerkUser(u) ==
  /\ clerkUser = NoUser
  /\ clerkUser' = u
  /\ UNCHANGED << now, store, keys, runVars, ret, ops, runs, spentAtStart >>
  /\ UNCHANGED << userList, storageFails, gcVars >>
  /\ UNCHANGED sessionVars
  /\ Record

\* the user signs out: localStorage holds no 'clerk-user' any more and
\* getUserId() returns null ("if (!userString) return null")
RemoveClerkUser ==
  /\ clerkUser # NoUser
  /\ clerkUser' = NoUser
  /\ UNCHANGED << now, store, keys, runVars, ret, ops, runs, spentAtStart >>
  /\ UNCHANGED << userList, storageFails, gcVars >>
  /\ UNCHANGED sessionVars
  /\ Record

\* the clock, up to max
TickTo(max) ==
  /\ now < max
  /\ now' = now + 1
  /\ UNCHANGED << store, keys, runVars, ret, ops, runs, spentAtStart >>
  /\ UNCHANGED << userVars, storageFails, gcVars >>
  /\ UNCHANGED sessionVars
  /\ Record

\* the clock
Tick == TickTo(MaxTime)

(***************************************************************************)
(* Garbage Collector.  performPeriodicCacheCleanup is one synchronous      *)
(* block in its own context; localStorage is shared with the other         *)
(* contexts of the origin without a lock, so between the read of the       *)
(* marker (GCStart) and the sweeps with the write of the marker (GCSweep)  *)
(* the other contexts may act.                                             *)
(***************************************************************************)
\* 86400000 ms, in units of the model's clock
CleanupInterval == 1

\* how a call ends
Returned == "returned"

Thrown == "thrown"

\* localStorage.setItem: it throws while the quota is exceeded
SetItem == IF storageFails THEN Thrown ELSE Returned

\* statements one after the other: the first that throws ends them
InOrder(outcomes) ==
  IF \E i \in 1..Len(outcomes) : outcomes[i] = Thrown THEN Thrown ELSE Returned

\* the statements with no try around them
NoTry(outcome) == outcome

\* try { ... } catch (error) { console.error(...) }
TryCatch(outcome) == Returned

\* setItem throws inside cleanupExpiredMessages(), which writes when it has
\* deleted something
SweepRaised == Len(ValidMessages(store, now)) < Len(store) /\ SetItem = Thrown

\* cleanupExpiredMessages()
SweepOutcome == TryCatch(IF SweepRaised THEN Thrown ELSE Returned)

\* cleanupOrphanedKeys() after the sweep: it writes when it has removed a key
SweepOrphansOutcome ==
  TryCatch(IF OrphanedKeys(keys, Written(ValidMessages(store, now), store)) # {}
           THEN SetItem ELSE Returned)

\* performPeriodicCacheCleanup() when the cleanup is due: the two sweeps,
\* the marker, and the check of 'secureMessages' (which writes when the
\* item is missing)
CleanupOutcome ==
  TryCatch(InOrder(<< SweepOutcome, SweepOrphansOutcome, SetItem >>))

\* lines 160-164: the marker and the clock are read, the cleanup is due when
\* there is no marker or it is more than the interval old
CleanupDue(marker, currentTime) ==
  marker = Null \/ currentTime - marker > CleanupInterval

\* performPeriodicCacheCleanup() of context c, from the effect of View.tsx:
\* lines 160-164.  When the cleanup is not due the call is over.
GCStart(c) ==
  /\ gcPc[c] = "Idle"
  /\ pc[c] # "Crashed"
  /\ Calls < MaxCalls
  /\ gcs' = gcs + 1
  /\ IF CleanupDue(lastCacheCleanup, now)
     THEN /\ gcPc' = [gcPc EXCEPT ![c] = "Sweeping"]
          /\ gcTime' = [gcTime EXCEPT ![c] = now]
          /\ ret' = ret
     ELSE /\ ret' = [op |-> "performPeriodicCacheCleanup", id |-> << >>,
                     val |-> Returned]
          /\ UNCHANGED << gcPc, gcTime >>
  /\ UNCHANGED << now, store, keys, runVars, ops, runs, spentAtStart >>
  /\ UNCHANGED << userVars, storageFails, lastCacheCleanup, gcLog >>
  /\ UNCHANGED sessionVars
  /\ Record

\* lines 165-204: cleanupExpiredMessages(), cleanupOrphanedKeys(), the
\* marker set to the clock reading of line 161.  An exception that leaves
\* the call leaves the effect of View.tsx and takes the page down.
GCSweep(c) ==
  /\ gcPc[c] = "Sweeping"
  /\ store' = Written(ValidMessages(store, now), store)
  /\ userList' = IF Len(ValidMessages(store, now)) < Len(store)
                 THEN WrittenForUser(ValidMessages(userList, now), userList)
                 ELSE userList
  /\ keys' = Written(CleanupKeys(keys, ValidMessages(store, now)), keys)
  /\ lastCacheCleanup' = Written(gcTime[c], lastCacheCleanup)
  /\ gcPc' = [gcPc EXCEPT ![c] = "Idle"]
  /\ ret' = [op |-> "performPeriodicCacheCleanup", id |-> << >>,
             val |-> CleanupOutcome]
  /\ pc' = [pc EXCEPT ![c] = IF CleanupOutcome = Thrown THEN "Crashed" ELSE @]
  /\ UNCHANGED << now, urlId, hash, signedIn, message, keyFragment, keySource,
                  decrypted, updatedMessage, pendingKey, ops, runs, spentAtStart >>
  \* history: the cleanups that ran, with the clock reading each took, the
  \* position of the page's run, and whether setItem threw inside
  \* cleanupExpiredMessages
  /\ gcLog' = Append(gcLog, [c |-> c, at |-> gcTime[c], pcAt |-> pc[c],
                             raised |-> SweepRaised])
  /\ UNCHANGED << clerkUser, storageFails, gcTime, gcs >>
  /\ UNCHANGED sessionVars
  /\ Record

\* the quota of the origin's localStorage is reached: setItem throws
QuotaExceeded ==
  /\ ~storageFails
  /\ storageFails' = TRUE
  /\ UNCHANGED << now, store, keys, runVars, ret, ops, runs, spentAtStart >>
  /\ UNCHANGED << userVars, gcVars >>
  /\ UNCHANGED sessionVars
  /\ Record

\* room is made in the origin's localStorage
QuotaFreed ==
  /\ storageFails
  /\ storageFails' = FALSE
  /\ UNCHANGED << now, store, keys, runVars, ret, ops, runs, spentAtStart >>
  /\ UNCHANGED << userVars, gcVars >>
  /\ UNCHANGED sessionVars
  /\ Record

\* the absolute time a record of the model expires at, when it has one
ExpiryTime == 0

\* a call of the Record Store or the Key Vault from outside a run, on the
\* identifiers ids, with a maxViews among limits
StoreCall(ids, limits) ==
  \/ \E c \in Contexts, id \in ids, exp \in { Null, ExpiryTime },
        maxV \in limits, pt \in Plaintexts :
       SaveMessage(c, id, exp, maxV, EncryptMessage(pt, 1, 1, 1))
  \/ \E id \in ids : StoreKey(id, 1)
  \/ \E id \in ids : IncrementMessageViews(id)
  \/ \E id \in ids : DeleteMessage(id)
  \/ CleanupExpiredMessages

\* a step of a Coordinator run
RunStep ==
  \/ \E c \in Contexts, id \in QueryIds, v \in Viewers :
       Navigate(c, id, v.frag, v.si)
  \/ \E c \in Contexts : Resolve(c)
  \/ \E c \in Contexts : ImportKeyStep(c)
  \/ \E c \in Contexts : DecryptStep(c)
  \/ \E c \in Contexts : StoreKeyForFutureAccess(c)

Next ==
  \/ StoreCall({ IdA, IdB }, { Null, 1, 2 })
  \/ RunStep
  \/ Tick

Spec == Init /\ [][Next]_vars

\* the Record Store and the Key Vault alone, no viewer open
\* the messages saveMessage is handed with no id, with no ciphertext, with
\* neither
InvalidMessages ==
  { [id |-> << >>, encryptedContent |-> EncryptMessage(Secret, 1, 1, 1)],
    [id |-> IdA, encryptedContent |-> NoContent],
    [id |-> << >>, encryptedContent |-> NoContent] }

NextStore ==
  \/ StoreCall(StoredIds, { Null, 1, 2 })
  \/ \E c \in Contexts, m \in InvalidMessages :
       SaveMessage(c, m.id, Null, Null, m.encryptedContent)
  \/ \E u \in Users : SetClerkUser(u)
  \/ Tick

SpecStore == Init /\ [][NextStore]_vars

\* the key texts handed to the Key Vault
KeyTexts == { ExportKey(1), ExportKey(2), PaddedKey(1) }

\* the Key Vault called directly, next to the Record Store calls that
\* decide which records are live
NextVault ==
  \/ \E c \in Contexts, id \in { IdA, IdB }, exp \in { Null, ExpiryTime },
        maxV \in { Null, 1 } :
       SaveMessage(c, id, exp, maxV, EncryptMessage(Secret, 1, 1, 1))
  \/ \E id \in StoredIds, text \in KeyTexts : PutKey(id, text)
  \/ \E id \in { IdA, IdB } : IncrementMessageViews(id)
  \/ \E id \in { IdA, IdB } : DeleteMessage(id)
  \/ CleanupOrphanedKeys
  \/ Tick

SpecVault == Init /\ [][NextVault]_vars

\* a step of the run of context c
RunOf(c) ==
  \/ Resolve(c)
  \/ ImportKeyStep(c)
  \/ DecryptStep(c)

\* one viewer session after another: pages opened with and without the
\* fragment, with the right key and with another, the user signing in and
\* out, and the retry of the error page
NextSession ==
  \/ \E c \in Contexts, exp \in { Null, ExpiryTime }, maxV \in { Null, 1 } :
       SaveMessage(c, IdA, exp, maxV, EncryptMessage(Secret, 1, 1, 1))
  \/ StoreKey(IdA, 1)
  \/ \E c \in Contexts, frag \in { ExportKey(1), ExportKey(2), EmptyText },
        si \in BOOLEAN :
       Navigate(c, IdA, frag, si)
  \/ \E c \in Contexts : Resolve(c)
  \/ \E c \in Contexts : ImportKeyStep(c)
  \/ \E c \in Contexts : DecryptStep(c)
  \/ \E c \in Contexts : StoreKeyForFutureAccess(c)
  \/ \E c \in Contexts : AuthChange(c)
  \/ \E c \in Contexts : Retry(c)
  \/ Tick

SpecSession == Init /\ [][NextSession]_vars

\* incrementMessageViews of one record from two contexts
NextRace ==
  \/ \E c \in Contexts, maxV \in { Null, 1, 2 } :
       SaveMessage(c, IdA, Null, maxV, EncryptMessage(Secret, 1, 1, 1))
  \/ \E c \in Contexts : IncRead(c, IdA)
  \/ \E c \in Contexts : IncWrite(c)
  \/ DeleteMessage(IdA)
  \/ \E u \in Users : SetClerkUser(u)
  \/ QuotaExceeded
  \/ QuotaFreed

SpecRace == Init /\ [][NextRace]_vars

\* the ids of the records the lookups are tried on
LookupIds == { IdA, IdB, IdC, IdD, IdE }

\* the ids the lookups are made with
LookupQueries == { IdA, IdA20, IdTail }

\* getMessage over stores of records saved in any order, at different times
NextLookup ==
  \/ \E c \in Contexts, id \in LookupIds :
       SaveMessage(c, id, Null, Null, EncryptMessage(Secret, 1, 1, 1))
  \/ \E id \in LookupIds : DeleteMessage(id)
  \/ \E q \in LookupQueries : GetMessageCall(q)
  \/ Tick

SpecLookup == Init /\ [][NextLookup]_vars

\* the view page with its Garbage Collector call, in two contexts, while the
\* storage may fail
NextGC ==
  \/ \E c \in Contexts, exp \in { Null, ExpiryTime }, maxV \in { Null, 1 } :
       SaveMessage(c, IdA, exp, maxV, EncryptMessage(Secret, 1, 1, 1))
  \/ StoreKey(IdA, 1)
  \/ \E c \in Contexts, frag \in { ExportKey(1), EmptyText } :
       Navigate(c, IdA, frag, FALSE)
  \/ \E c \in Contexts : Resolve(c)
  \/ \E c \in Contexts : ImportKeyStep(c)
  \/ \E c \in Contexts : DecryptStep(c)
  \/ \E c \in Contexts : StoreKeyForFutureAccess(c)
  \/ \E c \in Contexts : GCStart(c)
  \/ \E c \in Contexts : GCSweep(c)
  \/ QuotaExceeded
  \/ QuotaFreed
  \/ TickTo(MaxTime + CleanupInterval)

SpecGC == Init /\ [][NextGC]_vars

\* the storage is filled, by a signed-in user or by nobody, a cleanup sets
\* its marker, and the cache is cleared from the error page
NextClear ==
  \/ \E c \in Contexts, exp \in { Null, ExpiryTime }, maxV \in { Null, 1 } :
       HandleSubmit(c, IdA, exp, maxV, 1)
  \/ \E u \in Users : SetClerkUser(u)
  \/ \E c \in Contexts : GCStart(c)
  \/ \E c \in Contexts : GCSweep(c)
  \/ \E legacy \in SUBSET LegacyUsers :
       \E names \in Orders(NamesAtLoop(legacy)) : ClearMessageCache(legacy, names)

SpecClear == Init /\ [][NextClear]_vars

\* the ids the Key Vault is called with: two ids that share their first 20
\* characters, and those 20 characters as an id of their own
VaultIds == { IdA, IdB, IdA20 }

\* the Key Vault called directly, with messages saved and deleted around it
NextPut ==
  \/ \E id \in VaultIds, text \in KeyTexts : PutKey(id, text)
  \/ \E c \in Contexts, id \in { IdA, IdB } :
       SaveMessage(c, id, Null, Null, EncryptMessage(Secret, 1, 1, 1))
  \/ \E id \in { IdA, IdB } : DeleteMessage(id)
  \/ CleanupOrphanedKeys

SpecPut == Init /\ [][NextPut]_vars

\* the Record Store called while a user is signed in and while nobody is
NextUser ==
  \/ \E c \in Contexts, id \in { IdA, IdB }, exp \in { Null, ExpiryTime },
        maxV \in { Null, 2 } :
       SaveMessage(c, id, exp, maxV, EncryptMessage(Secret, 1, 1, 1))
  \/ \E id \in { IdA, IdB } : IncrementMessageViews(id)
  \/ \E id \in { IdA, IdB } : DeleteMessage(id)
  \/ CleanupExpiredMessages
  \/ \E u \in Users : SetClerkUser(u)
  \/ RemoveClerkUser
  \/ Tick

SpecUser == Init /\ [][NextUser]_vars

\* two contexts calling the Record Store on one localStorage, each call a
\* read of the whole array and a write of a whole array
NextShared ==
  \/ \E c \in Contexts, id \in { IdA, IdB }, exp \in { Null, ExpiryTime },
        maxV \in { Null, 2 } :
       SaveMessageRead(c, id, exp, maxV)
  \/ \E c \in Contexts, id \in { IdA, IdB } : UpdateMessageRead(c, id)
  \/ \E c \in Contexts, id \in { IdA, IdB } : DeleteMessageRead(c, id)
  \/ \E c \in Contexts : CleanupExpiredMessagesRead(c)
  \/ \E c \in Contexts : SetItemStep(c)
  \/ Tick

SpecShared == Init /\ [][NextShared]_vars

\* one context alone: a message limited to 1 or 2 views is sent, the view
\* page is opened, opened again, retried and run again on a change of
\* isSignedIn, the Garbage Collector is called, and the storage may fail
NextViews ==
  \/ \E maxV \in { 1, 2 } : HandleSubmit(1, IdA, Null, maxV, 1)
  \/ \E frag \in { ExportKey(1), EmptyText }, si \in BOOLEAN :
       Navigate(1, IdA, frag, si)
  \/ Resolve(1)
  \/ ImportKeyStep(1)
  \/ DecryptStep(1)
  \/ StoreKeyForFutureAccess(1)
  \/ AuthChange(1)
  \/ Retry(1)
  \/ GCStart(1)
  \/ GCSweep(1)
  \/ QuotaExceeded
  \/ QuotaFreed
  \/ TickTo(MaxTime + CleanupInterval)

SpecViews == Init /\ [][NextViews]_vars

\* messages are sent, with a time limit or a view limit, viewed, and the
\* Garbage Collector runs
NextSweep ==
  \/ \E c \in Contexts, id \in { IdA, IdB }, exp \in { Null, ExpiryTime },
        maxV \in { Null, 1 }, k \in RootKeys :
       HandleSubmit(c, id, exp, maxV, k)
  \/ \E id \in { IdA, IdB } : IncrementMessageViews(id)
  \/ \E c \in Contexts : GCStart(c)
  \/ \E c \in Contexts : GCSweep(c)
  \/ TickTo(MaxTime + CleanupInterval)

SpecSweep == Init /\ [][NextSweep]_vars

\* the event loop runs the continuation that is ready: a run that has
\* started goes on, and a cleanup that has started ends
FairSpecGC ==
  /\ SpecGC
  /\ \A c \in Contexts : WF_vars(RunOf(c)) /\ WF_vars(GCSweep(c))

-----------------------------------------------------------------------------
\* Properties of the Record Store (SpecStore)

\* the consumption policy as the specification words it
IsConsumedByPolicy(m, t) ==
  \/ m.maxViews # Null /\ m.currentViews >= m.maxViews
  \/ m.expiresAt # Null /\ t > m.expiresAt

\* C2: isMessageExpired holds of a record exactly when its view limit is set
\* and reached or its expiry time is set and strictly passed; either limit
\* alone is enough, and a clock equal to the expiry time does not consume.
C2_ExpiredExactlyByPolicy ==
  \A i \in 1..Len(store) :
    /\ IsMessageExpired(store[i], now) <=> IsConsumedByPolicy(store[i], now)
    /\ ( /\ store[i].expiresAt = now
         /\ ~(store[i].maxViews # Null /\ store[i].currentViews >= store[i].maxViews) )
       => ~IsMessageExpired(store[i], now)

\* a record with both limits set that the clock alone has consumed, next to
\* a record without expiry time that its view limit alone has consumed
C2_Witness ==
  \E i, j \in 1..Len(store) :
    /\ store[i].maxViews # Null /\ store[i].expiresAt # Null
    /\ store[i].currentViews < store[i].maxViews
    /\ now > store[i].expiresAt
    /\ IsMessageExpired(store[i], now)
    /\ store[j].maxViews # Null /\ store[j].currentViews >= store[j].maxViews
    /\ store[j].expiresAt = Null
    /\ IsMessageExpired(store[j], now)

\* C4: incrementMessageViews on a record that is already consumed, by its
\* view limit or by its expiry time, returns the record as it is and leaves
\* the store as it is.
C4_ConsumeOfConsumedChangesNothing ==
  [][ \A i \in 1..Len(store) :
        ( /\ IsConsumedByPolicy(store[i], now)
          /\ IncrementMessageViews(store[i].id) )
        => /\ store' = store
           /\ ret'.val = store[i] ]_vars

\* C5: on a record with a view limit n and no expiry time, each
\* incrementMessageViews below the limit raises currentViews by exactly one,
\* the record is not consumed before the call, and after the call it is
\* consumed exactly when the count has reached n.
C5_ConsumeCountsToLimit ==
  [][ \A i \in 1..Len(store) :
        ( /\ store[i].expiresAt = Null
          /\ store[i].maxViews # Null
          /\ store[i].currentViews < store[i].maxViews
          /\ IncrementMessageViews(store[i].id) )
        => /\ ~IsMessageExpired(store[i], now)
           /\ Len(store') = Len(store)
           /\ store'[i] = [store[i] EXCEPT !.currentViews = store[i].currentViews + 1]
           /\ ret'.val = store'[i]
           /\ IsMessageExpired(store'[i], now')
                <=> store'[i].currentViews = store[i].maxViews ]_vars

\* the second of two calls has just consumed a record limited to two views
C5_Witness ==
  /\ ret.op = "incrementMessageViews"
  /\ ret.val # Undefined
  /\ ret.val.expiresAt = Null
  /\ ret.val.maxViews = 2
  /\ ret.val.currentViews = 2
  /\ \E i \in 1..Len(store) : store[i] = ret.val /\ IsMessageExpired(store[i], now)

\* two ids share a run of MinMatch characters
ShareRun(a, b) ==
  \E i \in 1..(Len(a) - MinMatch + 1), j \in 1..(Len(b) - MinMatch + 1) :
    SubSeq(a, i, i + MinMatch - 1) = SubSeq(b, j, j + MinMatch - 1)

\* the pairs of different ids getMessage may take for one another
RelatedIds ==
  { p \in StoredIds \X StoredIds :
      /\ p[1] # p[2]
      /\ \/ ToLowerCase(p[1]) = ToLowerCase(p[2])
         \/ ShareRun(p[1], p[2])
         \/ SubSeq(p[1], 1, ShortLen) = SubSeq(p[2], 1, ShortLen) }

\* C6 as stated: after the sweep has removed a consumed record, getMessage
\* with its id finds nothing, whatever other records remain.
C6_SweptIdNotFound ==
  [][ CleanupExpiredMessages =>
        \A i \in 1..Len(store) :
          IsConsumedByPolicy(store[i], now)
          => GetMessage(store', store[i].id) = Undefined ]_vars

\* C6: after the sweep has removed a consumed record, getMessage with its id
\* never returns that record: it finds nothing, or it returns another record
\* that is still stored, is not consumed, and whose id getMessage's loose
\* matching relates to the removed one.
C6_SweptIdNeverTheRemoved ==
  [][ CleanupExpiredMessages =>
        \A i \in 1..Len(store) :
          IsConsumedByPolicy(store[i], now)
          => LET found == GetMessage(store', store[i].id)
             IN  \/ found = Undefined
                 \/ /\ found.id # store[i].id
                    /\ << found.id, store[i].id >> \in RelatedIds
                    /\ ~IsConsumedByPolicy(found, now)
                    /\ \E j \in 1..Len(store') : store'[j] = found ]_vars

\* the sweep has removed a record and left an unrelated one: no absent id
\* resolves to anything
C6_Witness ==
  /\ ret.op = "cleanupExpiredMessages"
  /\ ret.val > 0
  /\ store # << >>
  /\ \A id \in StoredIds :
       (\A i \in 1..Len(store) : store[i].id # id) => GetMessage(store, id) = Undefined

\* C7: the sweep leaves exactly the records that were not consumed when it
\* was called, in their order and unchanged, and counts the ones it removed.
C7_SweepKeepsExactlyTheLive ==
  [][ CleanupExpiredMessages =>
        /\ store' = SelectSeq(store, LAMBDA m : ~IsConsumedByPolicy(m, now))
        /\ ret'.val = Len(store) - Len(store') ]_vars

\* the sweep has removed one record of two
C7_Witness ==
  /\ ret.op = "cleanupExpiredMessages"
  /\ ret.val = 1
  /\ Len(store) = 1
  /\ ~IsConsumedByPolicy(store[1], now)

-----------------------------------------------------------------------------
\* Properties of the Lifecycle Coordinator (Spec)

\* C1: once a stored record has been consumed, no run that starts afterwards
\* ends Done with that record, whatever the contexts have done to the store
\* in between.
C1_ConsumedNeverDecryptedAgain ==
  \A c \in Contexts :
    pc[c] = "Done" => message[c].id \notin spentAtStart[c]

\* some stored record has another view count after the step than before
ViewsChanged ==
  \E i \in 1..Len(store), j \in 1..Len(store') :
    /\ store[i].id = store'[j].id
    /\ store[i].currentViews # store'[j].currentViews

\* C3: a step of a run changes the view count of a record only when it is the
\* step in which decryptMessage returned the plaintext the run shows, and a
\* run that ends NotFound, Expired, MissingKey or DecryptFailed has not
\* called incrementMessageViews.
C3_ViewsCountedOnlyAfterOpen ==
  [][ \A c \in Contexts :
        /\ (pc'[c] # pc[c] /\ ViewsChanged)
           => /\ pc[c] = "Decrypting"
              /\ pc'[c] = "Done"
              /\ decrypted'[c] \in Plaintexts
              /\ decrypted'[c] =
                   DecryptMessage(message[c].encryptedContent, ImportKey(keyFragment[c]))
        /\ pc'[c] \in FailTerminal
           => /\ updatedMessage'[c] = NotCalled
              /\ (pc'[c] # pc[c] => ~ViewsChanged) ]_vars

\* a run has ended DecryptFailed after decryptMessage refused a well-formed
\* key, and the record it resolved is stored as it was
C3_Witness ==
  \E c \in Contexts :
    /\ pc[c] = "DecryptFailed"
    /\ ImportKey(keyFragment[c]) # ImportError
    /\ updatedMessage[c] = NotCalled
    /\ \E i \in 1..Len(store) : store[i] = message[c]

\* C8: when a run ends Expired, the record getMessage resolved for it is no
\* longer stored.
C8_ExpiredRunRemovesResolved ==
  [][ \A c \in Contexts :
        (pc[c] = "Idle" /\ pc'[c] = "Expired")
        => \A i \in 1..Len(store') : store'[i].id # message'[c].id ]_vars

\* C9: a run ends MissingKey only when the Key Vault has no key for the
\* record it resolved.
C9_MissingKeyOnlyWhenVaultEmpty ==
  [][ \A c \in Contexts :
        (pc[c] = "Idle" /\ pc'[c] = "MissingKey")
        => /\ hash[c] = EmptyText
           /\ GetEncryptionKey(keys, store, message'[c].id) = EmptyText ]_vars

\* C10: while a run imports and decrypts with a non-empty fragment in the
\* URL, the key it uses is that fragment, taken from the fragment and not
\* from the Key Vault.
C10_FragmentWins ==
  \A c \in Contexts :
    (pc[c] \in { "ImportingKey", "Decrypting" } /\ hash[c] # EmptyText)
    => /\ keyFragment[c] = hash[c]
       /\ keySource[c] = "fragment"

\* a signed-in run decrypts with its fragment while the Key Vault holds
\* another key for the record
C10_Witness ==
  \E c \in Contexts :
    /\ pc[c] = "Decrypting"
    /\ signedIn[c]
    /\ hash[c] # EmptyText
    /\ keyFragment[c] = hash[c]
    /\ GetEncryptionKey(keys, store, message[c].id) \notin { EmptyText, hash[c] }

(***************************************************************************)
(* Key Vault: the statements checked on SpecVault.                         *)
(***************************************************************************)
\* the first 20 characters of an id, the second name storeEncryptionKey
\* files a key under
ShortOf(id) == SubSeq(id, 1, Min(ShortLen, Len(id)))

\* the ids a key may be asked for
VaultQueries == StoredIds \cup { IdA20 }

\* the record is stored
Present(msgs, id) == \E j \in 1..Len(msgs) : msgs[j].id = id

\* C11: after deleteMessage of a stored record whose key was stored with
\* storeEncryptionKey, the Key Vault holds no entry under the record's id,
\* none under the first 20 characters of it, and getEncryptionKey with the
\* id yields no key.
C11_DeleteRemovesEveryKeyEntry ==
  [][\A id \in { IdA, IdB } :
       ( /\ DeleteMessage(id)
         /\ Present(store, id)
         /\ KeyAt(keys, id) # EmptyText
         /\ KeyAt(keys, ShortOf(id)) = KeyAt(keys, id) )
       => /\ KeyAt(keys', id) = EmptyText
          /\ KeyAt(keys', ShortOf(id)) = EmptyText
          /\ GetEncryptionKey(keys', store', id) = EmptyText]_vars

\* the ids of the records that are stored and not consumed
LiveIds(msgs, t) ==
  { msgs[j].id : j \in { k \in 1..Len(msgs) : ~IsMessageExpired(msgs[k], t) } }

\* the entry is filed under the id of a live record or under the first 20
\* characters of one
EntryOfLive(entry, msgs, t) ==
  \E id \in LiveIds(msgs, t) : entry.id = id \/ entry.id = ShortOf(id)

\* C12: whatever id it is asked with, getEncryptionKey returns only a key
\* that some entry of a live record (stored and not consumed) holds.
C12_KeyOnlyOfLiveRecord ==
  \A q \in VaultQueries :
    GetEncryptionKey(keys, store, q) # EmptyText
    => \E i \in 1..Len(keys) :
         /\ keys[i].key = GetEncryptionKey(keys, store, q)
         /\ EntryOfLive(keys[i], store, now)

\* C13: after cleanupOrphanedKeys every entry left in the Key Vault is filed
\* under the id, or the first 20 characters of the id, of a record that is
\* stored and not consumed, and no entry of such a record has been removed.
C13_OrphanSweepKeepsExactlyTheLive ==
  [][CleanupOrphanedKeys =>
       /\ \A i \in 1..Len(keys') : EntryOfLive(keys'[i], store', now')
       /\ \A i \in 1..Len(keys) :
            EntryOfLive(keys[i], store, now)
            => \E k \in 1..Len(keys') : keys'[k] = keys[i]]_vars

\* C14 as stated: after storeEncryptionKey(id, key) with an id longer than
\* 20 characters, getEncryptionKey with the id and with its first 20
\* characters both return the key that was handed in.
C14_PutThenGetReturnsTheKey ==
  [][\A id \in StoredIds, text \in KeyTexts :
       PutKey(id, text) /\ Len(id) > ShortLen /\ ret'.val = 1
       => /\ GetEncryptionKey(keys', store', id) = text
          /\ GetEncryptionKey(keys', store', ShortOf(id)) = text]_vars

\* C14: after storeEncryptionKey(id, key) with an id longer than 20
\* characters, getEncryptionKey with the id and with its first 20 characters
\* both return the key with the white space around it removed.
C14_PutThenGetReturnsTheTrimmedKey ==
  [][\A id \in StoredIds, text \in KeyTexts :
       PutKey(id, text) /\ Len(id) > ShortLen /\ ret'.val = 1
       => /\ GetEncryptionKey(keys', store', id) = [text EXCEPT !.pad = FALSE]
          /\ GetEncryptionKey(keys', store', ShortOf(id)) =
               [text EXCEPT !.pad = FALSE]]_vars

\* a key with white space around it has just been stored under an id of 24
\* characters and is read back, trimmed, under both names
C14_Witness ==
  /\ ret.op = "storeEncryptionKey"
  /\ ret.val = 1
  /\ ret.arg = PaddedKey(1)
  /\ Len(ret.id) > ShortLen
  /\ GetEncryptionKey(keys, store, ret.id) = ExportKey(1)
  /\ GetEncryptionKey(keys, store, ShortOf(ret.id)) = ExportKey(1)

(***************************************************************************)
(* Garbage Collector and storage failures: the statements checked on       *)
(* SpecGC and FairSpecGC.                                                  *)
(***************************************************************************)
\* C15: of any two calls of performPeriodicCacheCleanup, from one context or
\* from two, whose clock readings are no more than the interval apart, at
\* most one runs cleanupExpiredMessages and cleanupOrphanedKeys: the clock
\* readings of any two cleanups that ran are more than the interval apart.
C15_OneCleanupPerInterval ==
  \A i, j \in 1..Len(gcLog) :
    i < j => gcLog[j].at - gcLog[i].at > CleanupInterval

\* C16: a cleanup in which the storage fails returns normally to the page
\* that called it and leaves the page's run where it was, and every run that
\* has started reaches a terminal state.
C16_SweepFailureStaysInside ==
  /\ [][\A c \in Contexts :
          GCSweep(c) => /\ ret'.val = Returned
                        /\ pc'[c] = pc[c]
                        /\ gcPc'[c] = "Idle"]_vars
  /\ \A c \in Contexts :
       (pc[c] \notin Terminal \cup { "Unmounted" }) ~> (pc[c] \in Terminal)

\* setItem threw inside cleanupExpiredMessages while the run of the page was
\* under way, the call returned, and the run of that page has ended
C16_Witness ==
  \E i \in 1..Len(gcLog) :
    /\ gcLog[i].raised
    /\ gcLog[i].pcAt = "Idle"
    /\ pc[gcLog[i].c] \in Terminal
    /\ ret = [op |-> "performPeriodicCacheCleanup", id |-> << >>, val |-> Returned]

\* C17: when the write of the incremented record fails in
\* incrementMessageViews, the run that called it is not handed a record, as
\* it is after an increment and for a record already at its limit, and it
\* does not end Done.
C17_PersistFailureIsSurfaced ==
  [][\A c \in Contexts :
       ( /\ DecryptStep(c)
         /\ updatedMessage'[c] # updatedMessage[c]
         /\ storageFails
         /\ GetMessage(store, message[c].id) # Undefined
         /\ ~( /\ GetMessage(store, message[c].id).maxViews # Null
               /\ GetMessage(store, message[c].id).currentViews >=
                    GetMessage(store, message[c].id).maxViews ) )
       => /\ updatedMessage'[c] = Undefined
          /\ pc'[c] # "Done"]_vars

(***************************************************************************)
(* Record Store: saveMessage and getMessage, checked on SpecStore.         *)
(***************************************************************************)
\* C18: saveMessage of a message with no id or no ciphertext returns the
\* failure and leaves the stored records, the user's list and the Key Vault
\* as they were.
C18_InvalidRecordRejected ==
  [][\A c \in Contexts, m \in InvalidMessages :
       SaveMessage(c, m.id, Null, Null, m.encryptedContent)
       => /\ ret' = [op |-> "saveMessage", id |-> m.id, val |-> 0]
          /\ store' = store
          /\ userList' = userList
          /\ keys' = keys]_vars

\* a message with no ciphertext has been refused while a record, an entry of
\* the user's list and a key were stored
C18_Witness ==
  /\ ret = [op |-> "saveMessage", id |-> IdA, val |-> 0]
  /\ store # << >>
  /\ userList # << >>
  /\ keys # << >>

\* the stored ids are all different
NoSharedId(msgs) ==
  \A i, j \in 1..Len(msgs) : msgs[i].id = msgs[j].id => i = j

\* C19: no two stored records share an id, and a saveMessage whose id is
\* already stored replaces that one record, in its place, by the message and
\* leaves every other stored record as it was.
C19_PutIsUpsertById ==
  /\ [](NoSharedId(store) /\ NoSharedId(userList))
  /\ [][\A c \in Contexts, id \in StoredIds, exp \in { Null, ExpiryTime },
          maxV \in { Null, 1, 2 }, pt \in Plaintexts :
          (SaveMessage(c, id, exp, maxV, EncryptMessage(pt, 1, 1, 1)) /\ Present(store, id))
          => /\ Len(store') = Len(store)
             /\ \A i \in 1..Len(store) :
                  IF store[i].id = id
                  THEN /\ store'[i].id = id
                       /\ store'[i].expiresAt = exp
                       /\ store'[i].maxViews = maxV
                       /\ store'[i].currentViews = 0
                       /\ store'[i].createdAt = now
                       /\ store'[i].encryptedContent = EncryptMessage(pt, 1, 1, 1)
                  ELSE store'[i] = store[i]]_vars

\* the first of two stored records has just been saved again, later than the
\* second was saved
C19_Witness ==
  /\ Len(store) = 2
  /\ ret = [op |-> "saveMessage", id |-> store[1].id, val |-> 1]
  /\ store[1].createdAt > store[2].createdAt

\* the first 5 characters of IdA
ShortQuery == SubSeq(IdA, 1, 5)

\* a blank: not empty, and empty after trim()
BlankQuery == << " " >>

\* the ids getMessage is asked for
Queries == StoredIds \cup QueryIds \cup { IdA20, ShortQuery, BlankQuery }

\* C20: getMessage returns undefined whenever no stored id equals the
\* trimmed query, exactly or with the case ignored, and none shares a run of 10
\* characters or more with it; so it does for a query shorter than 10
\* characters and for a query that is empty after trimming.
C20_NotFoundBelowThreshold ==
  \A q \in Queries :
    ( \A i \in 1..Len(store) :
        /\ ToLowerCase(store[i].id) # ToLowerCase(Trim(q))
        /\ ~ShareRun(store[i].id, Trim(q)) )
    => GetMessage(store, q) = Undefined

(***************************************************************************)
(* getMessage: the similarity match, checked on SpecLookup.                *)
(***************************************************************************)
\* the stored records getMessage scores highest for the query, when it gets
\* as far as the similarity match
TopCandidates(msgs, q) ==
  LET idx == 1..Len(msgs)
      partial == { i \in idx : Score(msgs[i].id, q).longestMatch >= MinMatch }
  IN  IF \E i \in idx : ToLowerCase(msgs[i].id) = ToLowerCase(q) THEN {}
      ELSE { i \in partial : \A j \in partial :
               Score(msgs[j].id, q).confidence <= Score(msgs[i].id, q).confidence }

\* C21: when getMessage falls to the similarity match and several stored
\* records have the highest confidence, the record it returns is the one of
\* them created last, in whatever order they were stored.
C21_TieGoesToNewest ==
  ret.op = "getMessage"
  => \A i \in TopCandidates(store, Trim(ret.id)) :
       store[i].createdAt <= GetMessage(store, ret.id).createdAt

\* C22: getMessage called with the first 20 characters of a stored id that
\* no other stored id begins with returns that record, whatever else is
\* stored.
C22_UniquePrefixFindsRecord ==
  ret.op = "getMessage"
  => \A i \in 1..Len(store) :
       ( /\ ret.id = ShortOf(store[i].id)
         /\ Len(store[i].id) > ShortLen
         /\ \A j \in 1..Len(store) : StartsWith(store[j].id, ret.id) => j = i )
       => GetMessage(store, ret.id) = store[i]

\* the length of the longest run of characters two strings have in common
LongestCommon(a, b) ==
  SetMax({ 0 } \cup
         { l \in 1..Min(Len(a), Len(b)) :
             \E i \in 1..(Len(a) - l + 1), j \in 1..(Len(b) - l + 1) :
               SubSeq(a, i, i + l - 1) = SubSeq(b, j, j + l - 1) })

\* C29: the score getMessage gives a stored id for a query is the length of
\* their longest common run of characters whenever that is 10 or more, and
\* is below 10 otherwise; so it is when the run is the last 10 characters of
\* the stored id.
C29_ScoreIsLongestCommon ==
  ret.op = "getMessage"
  => \A i \in 1..Len(store) :
       LET common == LongestCommon(store[i].id, Trim(ret.id))
           score == Score(store[i].id, Trim(ret.id)).longestMatch
       IN  IF common >= MinMatch THEN score = common ELSE score < MinMatch

(***************************************************************************)
(* incrementMessageViews in two contexts, checked on SpecRace.             *)
(***************************************************************************)
\* the write of context c is made on a count another context has raised
\* since c read it
StaleWrite(c) ==
  /\ IncWrite(c)
  /\ ~storageFails
  /\ GetMessage(store, incRead[c].id) # Undefined
  /\ GetMessage(store, incRead[c].id).currentViews > incRead[c].currentViews

\* C27 as stated: when two contexts have both read currentViews < maxViews
\* before either wrote, the write of the second leaves the stored
\* currentViews above maxViews.
C27_RaceCountsPastLimit ==
  [][\A c \in Contexts :
       (StaleWrite(c) /\ incRead[c].maxViews # Null)
       => GetMessage(store', incRead[c].id).currentViews > incRead[c].maxViews]_vars

\* C27: when two contexts have both read currentViews < maxViews before
\* either wrote, both write the count they read plus one: the stored
\* currentViews ends one above what was read, one view is lost, and it never
\* ends above maxViews.
C27_RaceLosesAnIncrement ==
  /\ [][\A c \in Contexts :
          StaleWrite(c)
          => /\ GetMessage(store', incRead[c].id).currentViews =
                  incRead[c].currentViews + 1
             /\ GetMessage(store', incRead[c].id).currentViews <=
                  GetMessage(store, incRead[c].id).currentViews]_vars
  /\ [](\A i \in 1..Len(store) :
          store[i].maxViews # Null => store[i].currentViews <= store[i].maxViews)

\* the second of two contexts that had both read 0 of a record with a limit
\* has written: the call returned 1 and the store holds 1
C27_Witness ==
  /\ ret.op = "incrementMessageViews"
  /\ DOMAIN ret = { "op", "id", "val", "read", "before" }
  /\ ret.read = 0
  /\ ret.before = 1
  /\ ret.val.currentViews = 1
  /\ ret.val.maxViews # Null
  /\ GetMessage(store, ret.id).currentViews = 1

(***************************************************************************)
(* The Encryption Engine on its own: a text is sealed, what is handed to   *)
(* decryptMessage is that text or a text made from it, and ret keeps the   *)
(* call and its outcome.  Checked on SpecEngine.                           *)
(***************************************************************************)
\* the byte lengths a sealed byte string is cut to
CutLengths == { 0, 27, 28, 43 }

\* the first n bytes of a byte string
Cut(bytes, n) ==
  IF n >= bytes.len THEN bytes
  ELSE [len |-> n,
        salt |-> IF n >= SaltBytes THEN bytes.salt ELSE 0,
        iv |-> IF n >= SaltBytes + IvBytes THEN bytes.iv ELSE 0,
        ct |-> [bytes.ct EXCEPT !.len = Max(n - SaltBytes - IvBytes, 0),
                                !.intact = FALSE]]

\* another value of the same length
Other(v) == IF v = 1 THEN 2 ELSE 1

\* the ways the text handed to decryptMessage differs from the one
\* encryptMessage returned
Changes ==
  { [kind |-> k, len |-> 0] :
      k \in { "salt", "iv", "ciphertext", "slack", "alphabet", "space", "character" } }
  \cup { [kind |-> "cut", len |-> n] : n \in CutLengths }

\* salt, iv, ciphertext: a bit of the character that holds a bit of that
\*   part is changed, so that the bytes differ in it
\* slack: a bit of the last character that holds no bit of the bytes
\* alphabet: + and / for - and _
\* space: white space around the text
\* character: a bit that makes a character one of no alphabet
\* cut: the text of the first len bytes
Changed(text, ch) ==
  CASE ch.kind = "salt" ->
         [text EXCEPT !.bytes.salt = Other(@)]
    [] ch.kind = "iv" ->
         [text EXCEPT !.bytes.iv = Other(@)]
    [] ch.kind = "ciphertext" ->
         [text EXCEPT !.bytes.ct.intact = FALSE]
    [] ch.kind = "slack" ->
         IF text.bytes.len % 3 # 0 THEN [text EXCEPT !.slack = FALSE] ELSE text
    [] ch.kind = "alphabet" ->
         [text EXCEPT !.urlSafe = FALSE]
    [] ch.kind = "space" ->
         [text EXCEPT !.pad = TRUE]
    [] ch.kind = "character" ->
         [text EXCEPT !.b64 = FALSE]
    [] ch.kind = "cut" ->
         [text EXCEPT !.bytes = Cut(@, ch.len)]

NoChange == [kind |-> "none", len |-> 0]

\* encryptMessage(pt, key) with the salt and the iv drawn
EncryptCall(pt, k, salt, iv) ==
  /\ Calls < MaxCalls
  /\ ret' = [op |-> "encryptMessage", pt |-> pt, key |-> k,
             sealed |-> EncryptMessage(pt, k, salt, iv),
             val |-> EncryptMessage(pt, k, salt, iv), change |-> NoChange]
  /\ ops' = ops + 1
  /\ UNCHANGED << now, store, keys, runVars, runs, spentAtStart >>
  /\ UNCHANGED << userVars, storageFails, gcVars >>
  /\ UNCHANGED sessionVars
  /\ Record

\* the parameter encryptedMessage of decryptMessage is not what
\* encryptMessage returned
Tamper(ch) ==
  /\ ret.op = "encryptMessage"
  /\ Changed(ret.val, ch) # ret.val
  /\ ret' = [ret EXCEPT !.op = "changed", !.val = Changed(ret.val, ch),
                        !.change = ch]
  /\ UNCHANGED << now, store, keys, runVars, ops, runs, spentAtStart >>
  /\ UNCHANGED << userVars, storageFails, gcVars >>
  /\ UNCHANGED sessionVars
  /\ Record

\* decryptMessage(text, key), the key as it was generated or after
\* importKey(exportKey(key))
DecryptCall(k, exported) ==
  /\ Calls < MaxCalls
  /\ ret.op \in { "encryptMessage", "changed" }
  /\ ret' = [op |-> "decryptMessage", pt |-> ret.pt, sealedKey |-> ret.key,
             sealed |-> ret.sealed, input |-> ret.val, change |-> ret.change,
             key |-> k, exported |-> exported,
             val |-> DecryptOutcome(ret.val,
                                    IF exported THEN ImportKey(ExportKey(k)) ELSE k)]
  /\ ops' = ops + 1
  /\ UNCHANGED << now, store, keys, runVars, runs, spentAtStart >>
  /\ UNCHANGED << userVars, storageFails, gcVars >>
  /\ UNCHANGED sessionVars
  /\ Record

NextEngine ==
  \/ \E pt \in EnginePlaintexts, k \in RootKeys, salt \in Salts, iv \in Ivs :
       EncryptCall(pt, k, salt, iv)
  \/ \E ch \in Changes : Tamper(ch)
  \/ \E k \in RootKeys, exported \in BOOLEAN : DecryptCall(k, exported)

SpecEngine == Init /\ [][NextEngine]_vars

(***************************************************************************)
(* The view page over a session, checked on SpecSession.                   *)
(***************************************************************************)
\* the terminal states of a run that was started for an id
RunEnds == { "Done", "NotFound", "Expired", "MissingKey", "DecryptFailed" }

\* how far a run has come
Rank(at) ==
  CASE at = "Idle" -> 0
    [] at = "ImportingKey" -> 1
    [] at = "Decrypting" -> 2
    [] OTHER -> 3

\* C23: every run started for an id ends (while it has not ended its next
\* step can be taken, and every step of it brings it further), it ends in one
\* of Done, NotFound, Expired, MissingKey and DecryptFailed, and when it has
\* ended the page holds either a plaintext and no error, or the error of
\* that state and no plaintext.
C23_RunEndsInOneState ==
  /\ [](\A c \in Contexts :
          (pc[c] \notin Terminal \cup { "Unmounted" } /\ urlId[c] # << >>)
          => ENABLED RunOf(c))
  /\ [][\A c \in Contexts :
          (pc[c] \notin Terminal \cup { "Unmounted" } /\ urlId[c] # << >>
             /\ pc'[c] # pc[c])
          => (Rank(pc'[c]) > Rank(pc[c]) /\ pc'[c] \notin Terminal \ RunEnds)]_vars
  /\ [](\A c \in Contexts :
          pc[c] \in RunEnds
          => IF pc[c] = "Done"
             THEN decrypted[c] # NoPlain /\ error[c] = "none"
             ELSE decrypted[c] = NoPlain /\ error[c] = pc[c])

C28_FailureTerminalUntilRetry ==
  /\ [][\A c \in Contexts :
          (pc[c] = "DecryptFailed" /\ pc'[c] # "DecryptFailed")
          => \/ Retry(c)
             \/ \E id \in AllIds, frag \in { ExportKey(1), ExportKey(2), EmptyText },
                  si \in BOOLEAN : Navigate(c, id, frag, si)]_vars
  /\ [][\A c \in Contexts : Retry(c) => pc'[c] = "Idle"]_vars

(***************************************************************************)
(* The Encryption Engine, checked on SpecEngine.                           *)
(***************************************************************************)
\* C25: decryptMessage of the text encryptMessage returned, under the key it
\* was sealed with, as generated or exported and imported again, returns the
\* text that was sealed, for every text.
C25_RoundTrip ==
  (ret.op = "decryptMessage" /\ ret.change = NoChange /\ ret.key = ret.sealedKey)
  => (ret.val.error = "none" /\ ret.val.text = ret.pt)

\* what encryptMessage can return under a key
SealOutputs(k) ==
  { EncryptMessage(pt, k, salt, iv) :
      pt \in EnginePlaintexts, salt \in Salts, iv \in Ivs }

\* C26: decryptMessage returns a text only for an input that is exactly
\* what encryptMessage returns under the same key; for a text sealed under
\* another key and for a sealed text in which something was changed it
\* fails and returns no text.
C26_OpensOnlySealOutput ==
  ret.op = "decryptMessage"
  => /\ ret.val.error = "none" => ret.input \in SealOutputs(ret.key)
     /\ (ret.key # ret.sealedKey \/ ret.change # NoChange)
          => (ret.val.error # "none" /\ ret.val.text = << >>)

\* C30: for an input that decodes to fewer bytes than salt, iv and tag
\* together decryptMessage fails with InvalidCiphertext and comes neither
\* to deriveKey nor to crypto.subtle.decrypt.
C30_ShortInputRejectedEarly ==
  ( /\ ret.op = "decryptMessage"
    /\ Base64UrlDecode(TrimKey(ret.input)) # DecodeError
    /\ Base64UrlDecode(TrimKey(ret.input)).len < SaltBytes + IvBytes + TagBytes )
  => ( /\ ret.val.error = "InvalidCiphertext"
       /\ ~ret.val.derived
       /\ ~ret.val.opened )

(***************************************************************************)
(* The Garbage Collector and the Key Vault, checked on SpecSweep.          *)
(***************************************************************************)
\* the stored records that are consumed
ConsumedRecords(msgs, t) ==
  { msgs[j] : j \in { k \in 1..Len(msgs) : IsMessageExpired(msgs[k], t) } }

\* the entry under the first 20 characters of id is the entry of a live
\* record: one with the same first 20 characters whose own entry holds the
\* same key
PrefixEntryOfLive(ks, msgs, t, id) ==
  \E other \in LiveIds(msgs, t) :
    /\ ShortOf(other) = ShortOf(id)
    /\ KeyAt(ks, other) = KeyAt(ks, ShortOf(id))

\* C31: a cleanup that is due sweeps the records and then the keys: when it
\* has ended, the Key Vault holds no entry under the id of a record that
\* was consumed at the clock reading the cleanup began with, and the entry
\* under the first 20 characters of that id is gone too, unless it is the
\* entry of a record that is still live.
C31_SweepLeavesNoKeyOfConsumed ==
  [][\A c \in Contexts :
       GCSweep(c)
       => \A m \in ConsumedRecords(store, gcTime[c]) :
            /\ KeyAt(keys', m.id) = EmptyText
            /\ \/ KeyAt(keys', ShortOf(m.id)) = EmptyText
               \/ PrefixEntryOfLive(keys', store', now', m.id)]_vars

(***************************************************************************)
(* clearMessageCache(false), checked on SpecClear.                         *)
(***************************************************************************)
\* C32: when clearMessageCache(false) has returned, localStorage holds no
\* item whose name starts with userMessages_, however many there were and
\* in whatever order the storage enumerates them.
C32_ClearRemovesEveryUserList ==
  (ret.op = "clearMessageCache" /\ ret.val # 0)
  => \A i \in 1..Len(ret.after) : ~StartsWith(ret.after[i], << "userMessages_" >>)

(***************************************************************************)
(* The view limit over the runs of one context, checked on SpecViews.      *)
(***************************************************************************)
\* C33: in one context, whose runs follow one another, no more runs end
\* Done with a record than its maxViews, whatever runs, retries and
\* cleanups there are.
C33_AtMostMaxViewsDone ==
  \A i \in 1..Len(store) :
    store[i].maxViews # Null => dones[store[i].id] <= store[i].maxViews

(***************************************************************************)
(* The view a run counts, checked on Spec, where the other context saves,  *)
(* consumes, deletes and sweeps while the run awaits.                      *)
(***************************************************************************)
\* the stored currentViews of the record with the given id, Null for none
StoredViews(msgs, id) ==
  IF GetMessage(msgs, id) = Undefined THEN Null
  ELSE GetMessage(msgs, id).currentViews

\* C34: a run that ends Done has raised the stored currentViews of the
\* record it resolved by exactly one in its own counting step, whatever
\* another context did to the record while the run awaited the key import
\* and the decryption.
C34_DoneRaisedTheCount ==
  [][\A c \in Contexts :
       (DecryptStep(c) /\ pc'[c] = "Done")
       => /\ StoredViews(store, message[c].id) # Null
          /\ StoredViews(store', message[c].id)
               = StoredViews(store, message[c].id) + 1]_vars

(***************************************************************************)
(* The whole-array writes of two contexts, checked on SpecShared.          *)
(***************************************************************************)
\* C35: the write of a save, consume, delete or sweep by one context
\* leaves every stored record other than the one it is about (for the
\* sweep: every record that is not expired) as it was: a record put and an
\* increment made by another context are not lost or reverted.
C35_OtherRecordsKept ==
  [][\A c \in Contexts :
       SetItemStep(c)
       => \A i \in 1..Len(store) :
            (/\ store[i].id # snap[c].id
             /\ ~IsMessageExpired(store[i], now))
            => GetMessage(store', store[i].id) = store[i]]_vars

(***************************************************************************)
(* storeEncryptionKey for one id and getEncryptionKey for another, checked *)
(* on SpecPut.                                                             *)
(***************************************************************************)
\* C36: after storeEncryptionKey(id1, k1) has stored a key, a
\* storeEncryptionKey(id2, k2) for another id leaves what
\* getEncryptionKey(id1) returns as it was, also when id1 is the first 20
\* characters of id2 and when the two ids share their first 20 characters.
C36_PutLeavesOtherIds ==
  [][\A id2 \in VaultIds, text \in KeyTexts :
       (/\ PutKey(id2, text)
        /\ ret.op = "storeEncryptionKey"
        /\ ret.val = 1
        /\ ret.id # id2)
       => GetEncryptionKey(keys', store', ret.id)
            = GetEncryptionKey(keys, store, ret.id)]_vars

(***************************************************************************)
(* The per-user list and the Record Store, checked on SpecUser.            *)
(***************************************************************************)
\* C37: every record in the list userMessages_<userId> is also in the
\* Record Store, with the same currentViews, after any saves, consumes,
\* deletes and sweeps, made while that user or nobody is signed in.
C37_UserListFollowsStore ==
  \A i \in 1..Len(userList) :
    /\ GetMessage(store, userList[i].id) # Undefined
    /\ GetMessage(store, userList[i].id).currentViews = userList[i].currentViews

=============================================================================
